---- MODULE Spec2Model ----
(***************************************************************************)
(* Model of the bout engine of FighterSim, simulation/fight_engine.py.     *)
(*                                                                         *)
(* Numbers.  The engine computes in floats; the model computes in fixed    *)
(* point.  Stamina, damage, effective attributes and momentum are held in  *)
(* thousandths (100.0 is 100000), probabilities in millionths (0.35 is     *)
(* 350000), strike-finish thresholds in hundred-thousandths so that every  *)
(* step of the threshold chain (x0.8, x1.12, x1.20, x0.90, x1.10) is       *)
(* exact.  a \div b is floor division.                                     *)
(*                                                                         *)
(* Randomness.  random.Random(seed) is a deterministic generator: rng is   *)
(* its state, Nxt steps it, Roll reads random() off it in thousandths.     *)
(* The module-level generator used by _build_narrative is not seeded by    *)
(* the engine: its draws are a free choice.                                *)
(***************************************************************************)
EXTENDS Integers, Naturals, Sequences, FiniteSets, TLC

\* ------------------------------------------------------------------------
\* Bounds of the model
\* ------------------------------------------------------------------------
MaxSeed == 23

\* ------------------------------------------------------------------------
\* Simulation constants (fight_engine.py 223-228)
\* ------------------------------------------------------------------------
ROUND_DURATION_SECONDS == 300
TICK_DURATION_SECONDS == 30
\* variant: the tick loop runs one tick too many
TicksPerRoundPlusOne == ROUND_DURATION_SECONDS \div TICK_DURATION_SECONDS + 1
TICKS_PER_ROUND == ROUND_DURATION_SECONDS \div TICK_DURATION_SECONDS
MAX_ROUNDS_CHAMPIONSHIP == 5
MAX_ROUNDS_STANDARD == 3

\* ------------------------------------------------------------------------
\* Fixed point
\* ------------------------------------------------------------------------
Max(x, y) == IF x >= y THEN x ELSE y
Min(x, y) == IF x <= y THEN x ELSE y
Abs(x) == IF x >= 0 THEN x ELSE -x

\* ------------------------------------------------------------------------
\* random.Random(seed): state, step, random(), uniform(lo, hi)
\* ------------------------------------------------------------------------
RngMod == 65536
SeedState(seed) == (seed * 7919 + 10007) % RngMod
Nxt(s) == (s * 25173 + 13849) % RngMod
\* random() in thousandths, 0..999
Roll(s) == (s * 1000) \div RngMod
\* uniform(lo, hi), all three in thousandths: lo + (hi - lo) * random()
Uniform(lo, hi, s) == lo + ((hi - lo) * Roll(s)) \div 1000

\* ------------------------------------------------------------------------
\* FighterStats (fight_engine.py 18-134)
\* ------------------------------------------------------------------------
\* A snapshot as the dataclass constructs it: runtime fields at their defaults.
FighterStats(id, striking, grappling, wrestling, cardio, chin, speed, traits, style) ==
    [ id |-> id, striking |-> striking, grappling |-> grappling,
      wrestling |-> wrestling, cardio |-> cardio, chin |-> chin, speed |-> speed,
      traits |-> traits, style |-> style,
      stamina |-> 100000, damage |-> 0, standing_damage |-> 0, ground_damage |-> 0,
      knockdowns_suffered |-> 0, is_hurt |-> FALSE, hurt_ticks_remaining |-> 0,
      round_knockdowns |-> 0, momentum |-> 0,
      strikes_landed_this_round |-> 0, current_round |-> 1 ]

Has(x, trait) == trait \in x.traits

\* _hurt_penalty, in hundredths
HurtPenalty(x) == IF x.is_hurt THEN 75 ELSE 100

\* the slow_starter branch shared by effective_striking and effective_wrestling
SlowStarter(x, val) ==
    IF Has(x, "slow_starter")
    THEN IF x.current_round = 1 THEN (val * 85) \div 100
         ELSE IF x.current_round >= 3 THEN (val * 108) \div 100
         ELSE val
    ELSE val

\* the veteran_iq branch shared by the three effective_* methods
VeteranIq(x, val) ==
    IF Has(x, "veteran_iq") /\ x.current_round >= 3 THEN val + 4000 ELSE val

\* striking * (0.5 + 0.5 * stamina / 100), in thousandths
EffectiveStriking(x) ==
    LET val == (x.striking * (100000 + x.stamina)) \div 200
    IN (VeteranIq(x, SlowStarter(x, val)) * HurtPenalty(x)) \div 100

\* grappling * (0.6 + 0.4 * stamina / 100), in thousandths
EffectiveGrappling(x) ==
    LET val == (x.grappling * (150000 + x.stamina)) \div 250
    IN (VeteranIq(x, val) * HurtPenalty(x)) \div 100

EffectiveWrestling(x) ==
    LET val == (x.wrestling * (150000 + x.stamina)) \div 250
    IN (VeteranIq(x, SlowStarter(x, val)) * HurtPenalty(x)) \div 100

\* variant: the chin term with its sign flipped
StrikeThresholdFlipped(chin, traits, opponent_momentum) ==
    LET t0 == 680 + (50 - chin) * 8
        t1 == IF "iron_chin" \in traits THEN (t0 + 80) * 112 ELSE t0 * 100
        t2 == IF "comeback_king" \in traits THEN t1 + 5000 ELSE t1
        t3 == IF "journeyman_heart" \in traits THEN Max(55000, t2) * 12 ELSE t2 * 10
    IN IF opponent_momentum > 500 THEN t3 * 9
       ELSE IF opponent_momentum < -500 THEN t3 * 11
       ELSE t3 * 10

\* The threshold of is_finished_by_strikes in hundred-thousandths, from the
\* chin, the traits and the opponent's momentum (thousandths).
StrikeThreshold(chin, traits, opponent_momentum) ==
    LET t0 == 680 + (chin - 50) * 8                                 \* tenths
        t1 == IF "iron_chin" \in traits THEN (t0 + 80) * 112
              ELSE t0 * 100                                          \* 10^-3
        t2 == IF "comeback_king" \in traits THEN t1 + 5000 ELSE t1
        t3 == IF "journeyman_heart" \in traits THEN Max(55000, t2) * 12
              ELSE t2 * 10                                           \* 10^-4
    IN IF opponent_momentum > 500 THEN t3 * 9
       ELSE IF opponent_momentum < -500 THEN t3 * 11
       ELSE t3 * 10                                                  \* 10^-5

\* variant: the comparison is strict
IsFinishedByStrikesStrict(x, opponent_momentum) ==
    x.standing_damage * 100 > StrikeThreshold(x.chin, x.traits, opponent_momentum)

IsFinishedByStrikes(x, opponent_momentum) ==
    x.standing_damage * 100 >= StrikeThreshold(x.chin, x.traits, opponent_momentum)

\* The threshold of is_finished_by_grappling in thousandths.
GrappleThreshold(traits, opponent_momentum) ==
    LET t0 == IF "submission_magnet" \in traits THEN 55000 ELSE 70000
    IN IF opponent_momentum > 500 THEN (t0 * 90) \div 100
       ELSE IF opponent_momentum < -500 THEN (t0 * 110) \div 100
       ELSE t0

IsFinishedByGrappling(x, opponent_momentum) ==
    x.ground_damage >= GrappleThreshold(x.traits, opponent_momentum)

\* variant: the momentum is not clamped
AdjustMomentumUnclamped(x, delta) == [x EXCEPT !.momentum = x.momentum + delta]

\* adjust_momentum: the new momentum, clamped to [-1, 1]
AdjustMomentum(x, delta) ==
    [x EXCEPT !.momentum = Max(-1000, Min(1000, x.momentum + delta))]

\* 1.0 + momentum * 0.2, in thousandths
MomentumMultiplier(x) == 1000 + x.momentum \div 5

\* ------------------------------------------------------------------------
\* Round / fight result records (fight_engine.py 141-163)
\* ------------------------------------------------------------------------
\* Python's None where an id is expected; ids of fighters are positive.
None == 0 - 1
NoMethod == "None"
NoTime == << >>
\* dict.get(key, 0)
Get(d, key) == IF key \in DOMAIN d THEN d[key] ELSE 0
\* d[key] = value
Put(d, key, value) == [k \in (DOMAIN d) \cup {key} |-> IF k = key THEN value ELSE d[k]]
EmptyDict == [k \in {} |-> 0]

RoundResult(round_num) ==
    [ round_num |-> round_num, winner_id |-> None, method |-> NoMethod,
      time |-> NoTime, knockdowns |-> EmptyDict ]

\* f"{elapsed // 60}:{elapsed % 60:02d}" as its digits <<m, s, s>>: the
\* minutes (below 10 for every time of a round) and the two digits of the
\* zero-padded seconds
TimeStr(elapsed) == << elapsed \div 60, (elapsed % 60) \div 10, (elapsed % 60) % 10 >>

\* variant: the time at which the tick began
ElapsedAtTickStart(t) == t * TICK_DURATION_SECONDS

\* lines 358, 383 and 388: the seconds of the round elapsed at the end of the
\* tick with loop index t
Elapsed(t) == (t + 1) * TICK_DURATION_SECONDS

\* ------------------------------------------------------------------------
\* Style matchup system (fight_engine.py 170-216)
\* ------------------------------------------------------------------------
\* STYLE_TAKEDOWN_MODS.get((attacker_style, defender_style), 0.0), millionths
StyleTakedownMod(sa, sb) ==
    CASE sa = "Wrestler" /\ sb = "Striker" -> 100000
      [] sa = "Wrestler" /\ sb = "Grappler" -> 30000
      [] sa = "Wrestler" /\ sb = "Wrestler" -> 50000
      [] sa = "Wrestler" /\ sb = "Well-Rounded" -> 50000
      [] sa = "Striker" /\ sb = "Wrestler" -> -80000
      [] sa = "Striker" /\ sb = "Grappler" -> -40000
      [] sa = "Striker" /\ sb = "Striker" -> -50000
      [] sa = "Striker" /\ sb = "Well-Rounded" -> -20000
      [] sa = "Grappler" /\ sb = "Striker" -> 80000
      [] sa = "Grappler" /\ sb = "Grappler" -> 80000
      [] sa = "Grappler" /\ sb = "Wrestler" -> 30000
      [] sa = "Grappler" /\ sb = "Well-Rounded" -> 30000
      [] OTHER -> 0

\* (attacker_style, defender_style) in STYLE_TAKEDOWN_MODS
HasStyleEntry(sa, sb) ==
    /\ sa \in {"Wrestler", "Striker", "Grappler"}
    /\ sb \in {"Striker", "Grappler", "Wrestler", "Well-Rounded"}

\* variant: the last branch is an else, taken by every remaining pair
ComputeStyleContextElse(a, b) ==
    LET sa == a.style
        sb == b.style
        base == [ td_mod_a |-> StyleTakedownMod(sa, sb),
                  td_mod_b |-> StyleTakedownMod(sb, sa),
                  clinch_prob |-> 200000, ground_stickiness |-> 1000,
                  style_narrative |-> "" ]
    IN IF sa = "Striker" /\ sb = "Striker"
       THEN [base EXCEPT !.clinch_prob = 100000, !.style_narrative = "striking battle"]
       ELSE IF (sa = "Wrestler" /\ sb = "Striker") \/ (sa = "Striker" /\ sb = "Wrestler")
       THEN [base EXCEPT !.clinch_prob = 300000, !.style_narrative = "takedown battle"]
       ELSE [base EXCEPT !.ground_stickiness = 800, !.style_narrative = "grappling clinic"]

\* clinch_prob in millionths, ground_stickiness in thousandths
ComputeStyleContext(a, b) ==
    LET sa == a.style
        sb == b.style
        base == [ td_mod_a |-> StyleTakedownMod(sa, sb),
                  td_mod_b |-> StyleTakedownMod(sb, sa),
                  clinch_prob |-> 200000, ground_stickiness |-> 1000,
                  style_narrative |-> "" ]
    IN IF sa = "Striker" /\ sb = "Striker"
       THEN [base EXCEPT !.clinch_prob = 100000, !.style_narrative = "striking battle"]
       ELSE IF (sa = "Wrestler" /\ sb = "Striker") \/ (sa = "Striker" /\ sb = "Wrestler")
       THEN [base EXCEPT !.clinch_prob = 300000, !.style_narrative = "takedown battle"]
       ELSE IF sa = "Grappler" /\ sb = "Grappler"
       THEN [base EXCEPT !.ground_stickiness = 800, !.style_narrative = "grappling clinic"]
       ELSE base

\* ------------------------------------------------------------------------
\* Helpers (fight_engine.py 633-673)
\* ------------------------------------------------------------------------
\* max(0.02, min(0.35, shoot - defense + 0.04)), millionths
TakedownProbability(a, b) ==
    LET shoot == EffectiveWrestling(a) * 2
        defense == (EffectiveWrestling(b) * 12) \div 10
    IN Max(20000, Min(350000, shoot - defense + 40000))

\* variant: the hit probability is not clamped
HitProbabilityUnclamped(attacker, defender) ==
    400000 + (EffectiveStriking(attacker) - defender.speed * 1000) * 5
    + (IF Has(attacker, "fast_hands") THEN 80000 ELSE 0)

\* max(0.15, min(0.85, 0.4 + (striking - speed) / 200 [+ 0.08])), millionths
HitProbability(attacker, defender) ==
    LET speed_advantage == (EffectiveStriking(attacker) - defender.speed * 1000) * 5
        prob == 400000 + speed_advantage
                + (IF Has(attacker, "fast_hands") THEN 80000 ELSE 0)
    IN Max(150000, Min(850000, prob))

\* uniform(4, 14) * power * (1.2 - chin / 100 * 0.4), thousandths; s is the
\* generator state the base is read from
StrikeDamage(attacker, defender, s) ==
    LET base == Uniform(4000, 14000, s)
        powered == (base * EffectiveStriking(attacker)) \div 100000
    IN (powered * (1200 - 4 * defender.chin)) \div 1000

\* variant: the veteran_iq discount starts after round 3
DrainAmountAfterThree(x, base_drain) ==
    LET d0 == (base_drain * (150 - x.cardio)) \div 150
        d1 == IF Has(x, "gas_tank") THEN (d0 * 55) \div 100 ELSE d0
    IN IF Has(x, "veteran_iq") /\ x.current_round > 3 THEN (d1 * 90) \div 100 ELSE d1

\* base_drain * cardio_factor, cardio_factor = 1.0 - cardio / 150 with its
\* trait multipliers, thousandths
DrainAmount(x, base_drain) ==
    LET d0 == (base_drain * (150 - x.cardio)) \div 150
        d1 == IF Has(x, "gas_tank") THEN (d0 * 55) \div 100 ELSE d0
    IN IF Has(x, "veteran_iq") /\ x.current_round >= 3 THEN (d1 * 90) \div 100 ELSE d1

\* variant: the drain is not floored at 0
DrainStaminaUnfloored(x, s) ==
    [x EXCEPT !.stamina = x.stamina - DrainAmount(x, Uniform(1500, 3500, s))]

\* _drain_stamina: the fighter after the drain read from state s
DrainStamina(x, s) ==
    [x EXCEPT !.stamina = Max(0, x.stamina - DrainAmount(x, Uniform(1500, 3500, s)))]

\* _apply_round_fatigue
ApplyRoundFatigue(x, completed_round) ==
    LET recovery == Max(3, 15 - completed_round * 2)
                    + (IF Has(x, "gas_tank") THEN 5 ELSE 0)
        recovered == Min(100000, x.stamina + recovery * 1000)
        max_stamina == 100000 - completed_round * (60 - x.cardio) * 300
    IN [x EXCEPT !.stamina =
            IF x.cardio < 60 /\ ~Has(x, "gas_tank")
            THEN Min(recovered, max_stamina) ELSE recovered]

\* ------------------------------------------------------------------------
\* Striking (fight_engine.py 429-523)
\* ------------------------------------------------------------------------
\* The resolvers below take the two snapshots fs (keys "a", "b"), the round's
\* RoundResult res and the generator state g, and give them back as a record
\* [f, res, rng].
Other(k) == IF k = "a" THEN "b" ELSE "a"

\* the damage multiplier of a landed strike, thousandths (lines 461-479)
StrikeMult(attacker, defender) ==
    LET m0 == MomentumMultiplier(attacker)
        m1 == IF Has(attacker, "slow_starter") /\ attacker.current_round >= 3
              THEN (m0 * 105) \div 100 ELSE m0
        m2 == IF Has(attacker, "pressure_fighter")
              THEN IF defender.stamina < 30000 THEN (m1 * 125) \div 100
                   ELSE IF defender.stamina < 50000 THEN (m1 * 115) \div 100
                   ELSE IF defender.stamina < 70000 THEN (m1 * 105) \div 100
                   ELSE m1
              ELSE m1
    IN IF Has(attacker, "comeback_king") /\ attacker.standing_damage > 25000
       THEN (m2 * 120) \div 100 ELSE m2

\* (dmg - 10) / 100 * (1 - chin / 120), millionths
KnockdownProbability(dmg, defender) ==
    ((dmg - 10000) * 10 * (120 - defender.chin)) \div 120

\* lines 521-523: the knockout_artist bonus, which ends _process_strike
KnockoutArtist(fs, res, g, att, def) ==
    IF Has(fs[att], "knockout_artist")
    THEN LET g1 == Nxt(g)
         IN [ f |-> IF Roll(g1) * 1000 < 40000
                    THEN [fs EXCEPT ![def].standing_damage = @ + 25000] ELSE fs,
              res |-> res, rng |-> g1 ]
    ELSE [ f |-> fs, res |-> res, rng |-> g ]

\* variant: the stoppage comes with the third knockdown of the round
KnockdownThird(fs, res, g, att, def) ==
    LET fs1 == [fs EXCEPT ![def].is_hurt = TRUE,
                          ![def].hurt_ticks_remaining = 2,
                          ![def].knockdowns_suffered = @ + 1,
                          ![def].round_knockdowns = @ + 1]
        res1 == [res EXCEPT !.knockdowns =
                    Put(res.knockdowns, fs[def].id, Get(res.knockdowns, fs[def].id) + 1)]
        fs2 == [fs1 EXCEPT ![att] = AdjustMomentum(fs1[att], 300)]
        fs3 == [fs2 EXCEPT ![def] = AdjustMomentum(fs2[def], -300)]
        g1 == Nxt(g)
        stopped == [res1 EXCEPT !.winner_id = fs[att].id, !.method = "KO/TKO"]
    IN IF Roll(g1) * 1000 < 120000
       THEN [ f |-> fs3, res |-> stopped, rng |-> g1 ]
       ELSE IF fs3[def].round_knockdowns >= 3
       THEN [ f |-> fs3, res |-> stopped, rng |-> g1 ]
       ELSE KnockoutArtist(fs3, res1, g1, att, def)

\* lines 494-519: a knockdown scored by att on def, the referee's stoppage
\* roll and the second-knockdown stoppage
Knockdown(fs, res, g, att, def) ==
    LET fs1 == [fs EXCEPT ![def].is_hurt = TRUE,
                          ![def].hurt_ticks_remaining = 2,
                          ![def].knockdowns_suffered = @ + 1,
                          ![def].round_knockdowns = @ + 1]
        res1 == [res EXCEPT !.knockdowns =
                    Put(res.knockdowns, fs[def].id, Get(res.knockdowns, fs[def].id) + 1)]
        fs2 == [fs1 EXCEPT ![att] = AdjustMomentum(fs1[att], 300)]
        fs3 == [fs2 EXCEPT ![def] = AdjustMomentum(fs2[def], -300)]
        g1 == Nxt(g)
        stopped == [res1 EXCEPT !.winner_id = fs[att].id, !.method = "KO/TKO"]
    IN IF Roll(g1) * 1000 < 120000
       THEN [ f |-> fs3, res |-> stopped, rng |-> g1 ]
       ELSE IF fs3[def].round_knockdowns >= 2
       THEN [ f |-> fs3, res |-> stopped, rng |-> g1 ]
       ELSE KnockoutArtist(fs3, res1, g1, att, def)

\* lines 453-456: hit_prob of a strike, with the initiator's first-strike bonus
StrikeHitProbability(attacker, defender, is_initiator) ==
    LET hp == HitProbability(attacker, defender)
    IN IF is_initiator THEN Min(850000, hp + 50000) ELSE hp

\* line 481: dmg of a landed strike whose base is read from state s
LandedDamage(fs, s, att, def) ==
    (StrikeDamage(fs[att], fs[def], s) * StrikeMult(fs[att], fs[def])) \div 1000

ProcessStrike(fs, res, g, att, def, is_initiator) ==
    LET hit_prob == StrikeHitProbability(fs[att], fs[def], is_initiator)
        g1 == Nxt(g)
    IN IF Roll(g1) * 1000 >= hit_prob
       THEN [ f |-> fs, res |-> res, rng |-> g1 ]
       ELSE
         LET g2 == Nxt(g1)
             dmg == LandedDamage(fs, g2, att, def)
             fs1 == [fs EXCEPT ![def].standing_damage = @ + dmg,
                               ![def].damage = @ + dmg \div 2,
                               ![att].strikes_landed_this_round = @ + 1]
             fs2 == [fs1 EXCEPT ![att] = AdjustMomentum(fs1[att], 50)]
             fs3 == [fs2 EXCEPT ![def] = AdjustMomentum(fs2[def], -50)]
             g3 == Nxt(g2)
         IN IF dmg > 12000
            THEN IF Roll(g3) * 1000 < KnockdownProbability(dmg, fs3[def])
                 THEN Knockdown(fs3, res, g3, att, def)
                 ELSE KnockoutArtist(fs3, res, g3, att, def)
            ELSE KnockoutArtist(fs3, res, g2, att, def)

\* lines 433-440: who strikes first
FirstStriker(fs) ==
    LET speed_a == fs["a"].speed + (IF Has(fs["a"], "fast_hands") THEN 8 ELSE 0)
        speed_b == fs["b"].speed + (IF Has(fs["b"], "fast_hands") THEN 8 ELSE 0)
    IN IF speed_a >= speed_b THEN "a" ELSE "b"

\* ------------------------------------------------------------------------
\* Ground (fight_engine.py 569-626)
\* ------------------------------------------------------------------------
\* lines 573-576: who has top position
TopPosition(fs) ==
    IF EffectiveWrestling(fs["a"]) >= EffectiveWrestling(fs["b"]) THEN "a" ELSE "b"

\* 1.20 if the defender is a submission_magnet, hundredths
SubMagnetMult(defender) == IF Has(defender, "submission_magnet") THEN 120 ELSE 100

\* lines 582-590: ground and pound; draws one or two numbers
GroundAndPound(fs, g, att, def) ==
    LET g1 == Nxt(g)
        g2 == Nxt(g1)
        d0 == (Uniform(6000, 15000, g2) * EffectiveStriking(fs[att])) \div 100000
        d1 == IF Has(fs[att], "ground_and_pound_specialist") THEN (d0 * 125) \div 100
              ELSE d0
        d2 == (d1 * MomentumMultiplier(fs[att])) \div 1000
        dmg == (d2 * SubMagnetMult(fs[def])) \div 100
    IN IF Roll(g1) * 1000 < 650000
       THEN [ f |-> [fs EXCEPT ![def].ground_damage = @ + (dmg * 6) \div 10,
                               ![def].standing_damage = @ + dmg \div 10],
              rng |-> g2 ]
       ELSE [ f |-> fs, rng |-> g1 ]

\* lines 596-605: the defender's escape probability, millionths
EscapeProbability(defender) ==
    LET e0 == ((EffectiveGrappling(defender) * 7 + EffectiveWrestling(defender) * 3) * 5)
              \div 9
        e1 == Max(220000, e0)
        e2 == IF defender.is_hurt THEN (e1 * 70) \div 100 ELSE e1
        e3 == IF Has(defender, "submission_magnet") THEN (e2 * 80) \div 100 ELSE e2
    IN IF defender.style = "Well-Rounded" THEN (e3 * 115) \div 100 ELSE e3

\* variant: the draw is not scaled by momentum or by submission_magnet
SubmissionDamageUnscaled(fs, s, att, def, halved) ==
    LET u == Uniform(25000, 40000, s)
    IN IF halved THEN u \div 2 ELSE u

\* uniform(25, 40) [* 0.5] * momentum_multiplier * sub_magnet_mult
SubmissionDamage(fs, s, att, def, halved) ==
    LET u == Uniform(25000, 40000, s)
        d0 == IF halved THEN u \div 2 ELSE u
        d1 == (d0 * MomentumMultiplier(fs[att])) \div 1000
    IN (d1 * SubMagnetMult(fs[def])) \div 100

\* lines 592-626: the submission attempt
SubmissionAttempt(fs, g, att, def) ==
    LET sub_rate == IF EffectiveGrappling(fs[att]) > 80000 THEN 320000 ELSE 220000
        g1 == Nxt(g)
        g2 == Nxt(g1)
        g3 == Nxt(g2)
        escape_prob == EscapeProbability(fs[def])
        roll == Roll(g2) * 1000
    IN IF Roll(g1) * 1000 < sub_rate
       THEN IF roll < escape_prob \div 2
            THEN LET fs1 == [fs EXCEPT ![def] = AdjustMomentum(fs[def], 100)]
                 IN [ f |-> [fs1 EXCEPT ![att] = AdjustMomentum(fs1[att], -100)],
                      rng |-> g2 ]
            ELSE IF roll < escape_prob
            THEN [ f |-> [fs EXCEPT ![def].ground_damage =
                                @ + SubmissionDamage(fs, g3, att, def, TRUE)],
                   rng |-> g3 ]
            ELSE [ f |-> [fs EXCEPT ![def].ground_damage =
                                @ + SubmissionDamage(fs, g3, att, def, FALSE)],
                   rng |-> g3 ]
       ELSE [ f |-> fs, rng |-> g1 ]

\* _simulate_ground_tick; the roles are fixed before the ground and pound
SimulateGroundTick(fs, res, g) ==
    LET att == TopPosition(fs)
        def == Other(att)
        gnp == GroundAndPound(fs, g, att, def)
        sub == SubmissionAttempt(gnp.f, gnp.rng, att, def)
    IN [ f |-> sub.f, res |-> res, rng |-> sub.rng ]

\* ------------------------------------------------------------------------
\* Clinch (fight_engine.py 530-562)
\* ------------------------------------------------------------------------
\* lines 535-546: one fighter's 50% clinch strike; draws one or two numbers
ClinchStrike(fs, g, att, def, round_num) ==
    LET g1 == Nxt(g)
        g2 == Nxt(g1)
        d0 == (StrikeDamage(fs[att], fs[def], g2) * 6) \div 10
        d1 == (d0 * MomentumMultiplier(fs[att])) \div 1000
        dmg == IF Has(fs[att], "slow_starter") /\ round_num = 1 THEN (d1 * 85) \div 100
               ELSE d1
    IN IF Roll(g1) * 1000 < 500000
       THEN [ f |-> [fs EXCEPT ![def].standing_damage = @ + dmg,
                               ![def].damage = @ + (dmg * 3) \div 10],
              rng |-> g2 ]
       ELSE [ f |-> fs, rng |-> g1 ]

\* lines 550-555: the wrestler who works from the clinch, "" when there is none
ClinchWrestler(fs) ==
    IF fs["a"].style = "Wrestler" THEN "a"
    ELSE IF fs["b"].style = "Wrestler" THEN "b" ELSE ""

\* line 558: td_prob of the wrestler w from the clinch, millionths
ClinchTakedownProbability(fs, w) == TakedownProbability(fs[w], fs[Other(w)]) + 100000

\* lines 548-562: the wrestler's takedown from the clinch
ClinchTakedown(fs, res, g) ==
    LET w == ClinchWrestler(fs)
        g1 == Nxt(g)
        g2 == Nxt(g1)
    IN IF w = "" THEN [ f |-> fs, res |-> res, rng |-> g ]
       ELSE IF Roll(g1) * 1000 < 400000
       THEN IF Roll(g2) * 1000 < ClinchTakedownProbability(fs, w)
            THEN SimulateGroundTick([fs EXCEPT ![w] = AdjustMomentum(fs[w], 150)], res, g2)
            ELSE [ f |-> fs, res |-> res, rng |-> g2 ]
       ELSE [ f |-> fs, res |-> res, rng |-> g1 ]

\* _simulate_clinch_tick
SimulateClinchTick(fs, res, g, round_num) ==
    LET sa == ClinchStrike(fs, g, "a", "b", round_num)
        sb == ClinchStrike(sa.f, sa.rng, "b", "a", round_num)
    IN ClinchTakedown(sb.f, res, sb.rng)

\* ------------------------------------------------------------------------
\* Judges' decision (fight_engine.py 680-712)
\* ------------------------------------------------------------------------
\* the score of one fighter before the noise: what the opponent absorbed
BaseScore(opponent, total_kd) ==
    opponent.damage + opponent.standing_damage \div 2 + Get(total_kd, opponent.id) * 10000

\* variant: a margin below 3 is scored a draw
JudgesDecisionDraw(fs, total_kd, g) ==
    LET g1 == Nxt(g)
        g2 == Nxt(g1)
        a_score == BaseScore(fs["b"], total_kd) + Uniform(-5000, 5000, g1)
        b_score == BaseScore(fs["a"], total_kd) + Uniform(-5000, 5000, g2)
    IN [ winner |-> IF a_score > b_score THEN "a" ELSE "b",
         method |-> IF Abs(a_score - b_score) < 3000 THEN "Draw"
                    ELSE "Unanimous Decision",
         a_score |-> a_score, b_score |-> b_score, rng |-> g2 ]

\* variant: the knockdown bonus is left out of the scores
JudgesDecisionNoBonus(fs, total_kd, g) ==
    LET g1 == Nxt(g)
        g2 == Nxt(g1)
        g3 == Nxt(g2)
        a_score == BaseScore(fs["b"], EmptyDict) + Uniform(-5000, 5000, g1)
        b_score == BaseScore(fs["a"], EmptyDict) + Uniform(-5000, 5000, g2)
        margin == Abs(a_score - b_score)
        winner == IF a_score > b_score THEN "a" ELSE "b"
    IN IF margin < 3000
       THEN [ winner |-> winner,
              method |-> IF (Roll(g3) * 2) \div 1000 = 0 THEN "Split Decision"
                         ELSE "Majority Decision",
              a_score |-> a_score, b_score |-> b_score, rng |-> g3 ]
       ELSE [ winner |-> winner, method |-> "Unanimous Decision",
              a_score |-> a_score, b_score |-> b_score, rng |-> g2 ]

\* variant: the ground damage a fighter absorbed counts for the opponent
JudgesDecisionGround(fs, total_kd, g) ==
    LET g1 == Nxt(g)
        g2 == Nxt(g1)
        g3 == Nxt(g2)
        a_score == BaseScore(fs["b"], total_kd) + fs["b"].ground_damage
                   + Uniform(-5000, 5000, g1)
        b_score == BaseScore(fs["a"], total_kd) + fs["a"].ground_damage
                   + Uniform(-5000, 5000, g2)
        margin == Abs(a_score - b_score)
        winner == IF a_score > b_score THEN "a" ELSE "b"
    IN IF margin < 3000
       THEN [ winner |-> winner,
              method |-> IF (Roll(g3) * 2) \div 1000 = 0 THEN "Split Decision"
                         ELSE "Majority Decision",
              a_score |-> a_score, b_score |-> b_score, rng |-> g3 ]
       ELSE [ winner |-> winner, method |-> "Unanimous Decision",
              a_score |-> a_score, b_score |-> b_score, rng |-> g2 ]

\* variant: equal scores go to fighter a
JudgesDecisionTieA(fs, total_kd, g) ==
    LET g1 == Nxt(g)
        g2 == Nxt(g1)
        g3 == Nxt(g2)
        a_score == BaseScore(fs["b"], total_kd) + Uniform(-5000, 5000, g1)
        b_score == BaseScore(fs["a"], total_kd) + Uniform(-5000, 5000, g2)
        margin == Abs(a_score - b_score)
        winner == IF a_score >= b_score THEN "a" ELSE "b"
    IN IF margin < 3000
       THEN [ winner |-> winner,
              method |-> IF (Roll(g3) * 2) \div 1000 = 0 THEN "Split Decision"
                         ELSE "Majority Decision",
              a_score |-> a_score, b_score |-> b_score, rng |-> g3 ]
       ELSE [ winner |-> winner, method |-> "Unanimous Decision",
              a_score |-> a_score, b_score |-> b_score, rng |-> g2 ]

\* the winner's key, the method, the two scores (locals a_score, b_score) and
\* the generator state after the draws
JudgesDecision(fs, total_kd, g) ==
    LET g1 == Nxt(g)
        g2 == Nxt(g1)
        g3 == Nxt(g2)
        a_score == BaseScore(fs["b"], total_kd) + Uniform(-5000, 5000, g1)
        b_score == BaseScore(fs["a"], total_kd) + Uniform(-5000, 5000, g2)
        margin == Abs(a_score - b_score)
        winner == IF a_score > b_score THEN "a" ELSE "b"
    IN IF margin < 3000
       THEN [ winner |-> winner,
              method |-> IF (Roll(g3) * 2) \div 1000 = 0 THEN "Split Decision"
                         ELSE "Majority Decision",
              a_score |-> a_score, b_score |-> b_score, rng |-> g3 ]
       ELSE [ winner |-> winner, method |-> "Unanimous Decision",
              a_score |-> a_score, b_score |-> b_score, rng |-> g2 ]

\* ------------------------------------------------------------------------
\* Narrative generation (fight_engine.py 719-782)
\* ------------------------------------------------------------------------
\* len(_NARRATIVE_TEMPLATES.get(method, [default]))
TemplateCount(method) ==
    CASE method = "KO/TKO" -> 3
      [] method = "Submission" -> 3
      [] method = "Unanimous Decision" -> 2
      [] method = "Split Decision" -> 2
      [] method = "Majority Decision" -> 2
      [] OTHER -> 1

\* lines 773-780: the style sentence appended to the text, "" when none
StyleFlavor(method, ctx) ==
    IF ctx.style_narrative = "" THEN ""
    ELSE IF method = "Submission" /\ ctx.style_narrative = "grappling clinic"
    THEN "grappling clinic"
    ELSE IF ctx.style_narrative = "striking battle" THEN "striking battle"
    ELSE IF ctx.style_narrative = "takedown battle" THEN "takedown battle"
    ELSE ""

\* The text as the values it is formatted from: the template that was picked
\* (choice is the index random.choice returned), the names substituted (ids
\* stand for names), the round, the knockdown sentences and the style flavor.
BuildNarrative(fs, rounds, method, winner, ctx, total_kd, choice) ==
    [ method |-> method, template |-> choice,
      winner |-> fs[winner].id,
      loser |-> (IF fs[winner].id = fs["a"].id THEN fs["b"] ELSE fs["a"]).id,
      round |-> rounds[Len(rounds)].round_num,
      knockdowns |-> [k \in {i \in DOMAIN total_kd : total_kd[i] > 0} |-> total_kd[k]],
      flavor |-> StyleFlavor(method, ctx) ]

\* ------------------------------------------------------------------------
\* The fighters of the model
\* ------------------------------------------------------------------------
NoTraits == {}
Brawler  == FighterStats(1, 88, 35, 40, 60, 45, 80, {"knockout_artist", "fast_hands"}, "Striker")
Tank     == FighterStats(2, 70, 40, 45, 70, 90, 55, {"iron_chin", "comeback_king"}, "Striker")
Grinder  == FighterStats(3, 60, 55, 92, 85, 70, 60,
                         {"ground_and_pound_specialist", "pressure_fighter"}, "Wrestler")
Ace      == FighterStats(4, 45, 97, 75, 80, 65, 55, {"veteran_iq"}, "Grappler")
Magnet   == FighterStats(5, 50, 80, 60, 50, 60, 50, {"submission_magnet", "slow_starter"},
                         "Grappler")
Veteran  == FighterStats(6, 55, 60, 60, 30, 75, 50, {"journeyman_heart", "gas_tank"},
                         "Well-Rounded")
Novice   == FighterStats(7, 30, 30, 30, 1, 100, 40, NoTraits, "Well-Rounded")
Plodder  == FighterStats(8, 25, 35, 30, 100, 95, 100, {"slow_starter", "veteran_iq"},
                         "Well-Rounded")

Slugger  == FighterStats(9, 100, 30, 30, 70, 80, 100, {"comeback_king", "pressure_fighter"},
                         "Striker")
Glass    == FighterStats(10, 75, 30, 30, 20, 1, 60, {"iron_chin", "journeyman_heart"},
                         "Striker")

\* a snapshot whose style is none of the rows of FighterStyle
Stray    == FighterStats(11, 65, 60, 55, 65, 60, 65, NoTraits, "Kickboxer")

\* a hard hitter against a durable, elusive opponent: bouts in which a
\* knockdown is scored and the judges decide
Hitter   == FighterStats(12, 100, 30, 30, 100, 80, 40, {"pressure_fighter"}, "Striker")
Wall     == FighterStats(13, 20, 30, 30, 20, 50, 100,
                         {"iron_chin", "journeyman_heart", "comeback_king"}, "Striker")

\* a slow puncher against a fighter who goes down easily and gets up: bouts
\* with knockdowns in different rounds
Puncher  == FighterStats(14, 90, 30, 30, 100, 80, 1, NoTraits, "Striker")
Chinny   == FighterStats(15, 1, 30, 30, 100, 1, 100,
                         {"iron_chin", "journeyman_heart", "comeback_king"}, "Striker")
\* two heavy hitters with no chin to speak of: a referee stoppage scored by a
\* fighter who is past the strike threshold himself
Crystal  == FighterStats(16, 100, 30, 30, 100, 1, 50, NoTraits, "Striker")
Sniper   == FighterStats(17, 100, 30, 30, 100, 20, 90, {"knockout_artist"}, "Striker")

Matchups ==
    << <<Brawler, Tank>>, <<Slugger, Glass>>, <<Glass, Slugger>>, <<Grinder, Brawler>>,
       <<Ace, Magnet>>, <<Magnet, Ace>>, <<Veteran, Grinder>>, <<Novice, Plodder>>,
       <<Plodder, Veteran>>, <<Ace, Grinder>>, <<Stray, Grinder>>, <<Hitter, Wall>>,
       <<Puncher, Chinny>>, <<Crystal, Sniper>> >>

\* seeds 0 .. MaxSeed and more, under which a referee stoppage follows a
\* knockdown, a bout reaches the judges with a finish predicate true, a
\* fighter is knocked down in two different rounds, and a stoppage is scored
\* by a fighter who is past the strike threshold
ExtraSeeds == {53, 55, 119, 1017}
Seeds == (0 .. MaxSeed) \cup ExtraSeeds
RoundCounts == {MAX_ROUNDS_STANDARD, MAX_ROUNDS_CHAMPIONSHIP}

\* ------------------------------------------------------------------------
\* State
\* ------------------------------------------------------------------------
VARIABLES
    f,                \* the two snapshots, keys "a" and "b"
    seed,             \* the seed the caller passes
    max_rounds,       \* the round count the caller passes
    pc,               \* where simulate_fight is
    rng,              \* state of the per-call generator
    style_ctx,        \* the _StyleContext of the bout
    round_num,        \* loop variable of simulate_fight
    tick,             \* loop variable of _simulate_round
    was_ground,       \* local of _simulate_round
    td_prob,          \* locals td_prob_a, td_prob_b of the current tick
    phase,            \* the phase selected for the current tick
    result,           \* the RoundResult of the current round
    round_results,    \* list of RoundResults
    total_knockdowns, \* dict id -> knockdowns
    verdict,          \* winner, method, round and time of the FightResult being built
    out,              \* the FightResult returned, NoResult before
    call,             \* 1 for the first call, 2 for the repeated call
    first,            \* the FightResult of the first call
    global_draws,     \* draws made from the module-level generator
    nticks,           \* ticks started in the current call
    q                 \* a query to is_finished_by_strikes and its answer

vars == << f, seed, max_rounds, pc, rng, style_ctx, round_num, tick, was_ground, td_prob,
           phase, result, round_results, total_knockdowns, verdict, out, call, first,
           global_draws, nticks, q >>

inputs == << seed, max_rounds, call, first, q >>
locals == << style_ctx, round_num, round_results, total_knockdowns, verdict, out,
             global_draws >>

NoResult == [ winner_id |-> None ]
NoVerdict == [ winner |-> "" ]
NoQuery == [ asked |-> FALSE ]

Init ==
    /\ \E m \in 1 .. Len(Matchups) : f = [ a |-> Matchups[m][1], b |-> Matchups[m][2] ]
    /\ seed \in Seeds
    /\ max_rounds \in RoundCounts
    /\ pc = "call"
    /\ rng = 0
    /\ style_ctx = ComputeStyleContext(f["a"], f["b"])
    /\ round_num = 0
    /\ tick = 0
    /\ was_ground = FALSE
    /\ td_prob = [ a |-> 0, b |-> 0 ]
    /\ phase = ""
    /\ result = RoundResult(0)
    /\ round_results = << >>
    /\ total_knockdowns = EmptyDict
    /\ verdict = NoVerdict
    /\ out = NoResult
    /\ call = 1
    /\ first = NoResult
    /\ global_draws = 0
    /\ nticks = 0
    /\ q = NoQuery

\* ------------------------------------------------------------------------
\* simulate_fight (fight_engine.py 235-308)
\* ------------------------------------------------------------------------
\* variant: the damage accumulators and the momentum are not reset
ResetRuntimePartial(x) ==
    [x EXCEPT !.stamina = 100000, !.knockdowns_suffered = 0, !.is_hurt = FALSE,
              !.hurt_ticks_remaining = 0, !.round_knockdowns = 0,
              !.strikes_landed_this_round = 0, !.current_round = 1]

\* lines 244-255: the runtime state of one snapshot at bout start
ResetRuntime(x) ==
    [x EXCEPT !.stamina = 100000, !.damage = 0, !.standing_damage = 0,
              !.ground_damage = 0, !.knockdowns_suffered = 0, !.is_hurt = FALSE,
              !.hurt_ticks_remaining = 0, !.round_knockdowns = 0, !.momentum = 0,
              !.strikes_landed_this_round = 0, !.current_round = 1]

\* variant: the per-round resets clear the damage as well
ResetRoundAndDamage(x, r) ==
    [x EXCEPT !.current_round = r, !.round_knockdowns = 0, !.is_hurt = FALSE,
              !.hurt_ticks_remaining = 0, !.strikes_landed_this_round = 0,
              !.standing_damage = 0, !.ground_damage = 0]

\* lines 265-270: the per-round resets of one snapshot
ResetRound(x, r) ==
    [x EXCEPT !.current_round = r, !.round_knockdowns = 0, !.is_hurt = FALSE,
              !.hurt_ticks_remaining = 0, !.strikes_landed_this_round = 0]

\* lines 241-261: entry of simulate_fight up to the round loop
Call ==
    /\ pc = "call"
    /\ rng' = SeedState(seed)
    /\ f' = [k \in {"a", "b"} |-> ResetRuntime(f[k])]
    /\ style_ctx' = ComputeStyleContext(f["a"], f["b"])
    /\ round_results' = << >>
    /\ total_knockdowns' = Put(Put(EmptyDict, f["a"].id, 0), f["b"].id, 0)
    /\ round_num' = 1
    /\ nticks' = 0
    /\ pc' = "round"
    /\ verdict' = NoVerdict
    /\ out' = NoResult
    /\ UNCHANGED << inputs, tick, was_ground, td_prob, phase, result, global_draws >>

\* lines 264-272 and 319-320: the per-round resets and the entry of
\* _simulate_round
RoundStart ==
    /\ pc = "round"
    /\ f' = [k \in {"a", "b"} |-> ResetRound(f[k], round_num)]
    /\ result' = RoundResult(round_num)
    /\ was_ground' = FALSE
    /\ tick' = 0
    /\ pc' = "tick"
    /\ UNCHANGED << inputs, locals, rng, td_prob, phase, nticks >>

\* ------------------------------------------------------------------------
\* _simulate_round (fight_engine.py 315-422)
\* ------------------------------------------------------------------------
\* variant: the flag is cleared by the first decrement
DecayHurtEarly(x) ==
    IF x.hurt_ticks_remaining > 0
    THEN [x EXCEPT !.hurt_ticks_remaining = @ - 1, !.is_hurt = FALSE]
    ELSE x

\* lines 324-328
DecayHurt(x) ==
    IF x.hurt_ticks_remaining > 0
    THEN [x EXCEPT !.hurt_ticks_remaining = @ - 1,
                   !.is_hurt = IF x.hurt_ticks_remaining - 1 = 0 THEN FALSE ELSE @]
    ELSE x

\* lines 331-335
DecayMomentum(x) ==
    IF x.momentum > 0 THEN [x EXCEPT !.momentum = Max(0, x.momentum - 20)]
    ELSE IF x.momentum < 0 THEN [x EXCEPT !.momentum = Min(0, x.momentum + 20)]
    ELSE x

\* lines 338-345: td_prob of fighter k with the style delta and the
\* Well-Rounded bonus
TdProb(fs, ctx, k) ==
    TakedownProbability(fs[k], fs[Other(k)])
    + (IF k = "a" THEN ctx.td_mod_a ELSE ctx.td_mod_b)
    + (IF fs[k].style = "Well-Rounded"
          /\ fs[k].standing_damage > fs[Other(k)].standing_damage THEN 100000 ELSE 0)

\* lines 369-374: the momentum of a successful takedown
TakedownMomentum(fs, tda, tdb) ==
    LET w == IF tda >= tdb THEN "a" ELSE "b"
        fs1 == [fs EXCEPT ![w] = AdjustMomentum(fs[w], 150)]
    IN [fs1 EXCEPT ![Other(w)] = AdjustMomentum(fs1[Other(w)], -50)]

\* variant: the stand-up roll is compared with 0.80 whatever the styles
SelectPhaseSticky(ctx, g, wg, takedown_prob) ==
    LET g1 == Nxt(g)
        clinch_roll == Roll(g1) * 1000
        g2 == Nxt(g1)
        stay == wg /\ Roll(g2) > 800
        gt == IF wg THEN Nxt(g2) ELSE g2
        takedown == Roll(gt) * 1000 < takedown_prob
    IN IF stay
       THEN [ phase |-> "ground_stay", rng |-> g2, was_ground |-> wg ]
       ELSE [ phase |-> IF takedown THEN "ground"
                        ELSE IF clinch_roll < ctx.clinch_prob THEN "clinch"
                        ELSE "striking",
              rng |-> gt, was_ground |-> takedown ]

\* variant: the takedown is decided by the clinch roll, no further draw
SelectPhaseShared(ctx, g, wg, takedown_prob) ==
    LET g1 == Nxt(g)
        clinch_roll == Roll(g1) * 1000
        g2 == IF wg THEN Nxt(g1) ELSE g1
        stay == wg /\ Roll(g2) > ctx.ground_stickiness
        takedown == clinch_roll < takedown_prob
    IN IF stay
       THEN [ phase |-> "ground_stay", rng |-> g2, was_ground |-> wg ]
       ELSE [ phase |-> IF takedown THEN "ground"
                        ELSE IF clinch_roll < ctx.clinch_prob THEN "clinch"
                        ELSE "striking",
              rng |-> g2, was_ground |-> takedown ]

\* lines 348-379: the draws that select the phase of a tick: the clinch
\* roll, the stand-up roll when the last tick was on the ground (wg), and the
\* takedown roll unless the fight stays on the ground; gives the phase, the
\* generator state after the draws and the new was_ground
SelectPhase(ctx, g, wg, takedown_prob) ==
    LET g1 == Nxt(g)
        clinch_roll == Roll(g1) * 1000
        g2 == Nxt(g1)
        stay == wg /\ Roll(g2) > ctx.ground_stickiness
        gt == IF wg THEN Nxt(g2) ELSE g2
        takedown == Roll(gt) * 1000 < takedown_prob
    IN IF stay
       THEN [ phase |-> "ground_stay", rng |-> g2, was_ground |-> wg ]
       ELSE [ phase |-> IF takedown THEN "ground"
                        ELSE IF clinch_roll < ctx.clinch_prob THEN "clinch"
                        ELSE "striking",
              rng |-> gt, was_ground |-> takedown ]

\* lines 323-379: the start of a tick up to the choice of the phase resolver
TickStart ==
    /\ pc = "tick"
    /\ LET f1 == [k \in {"a", "b"} |-> DecayMomentum(DecayHurt(f[k]))]
           tda == TdProb(f1, style_ctx, "a")
           tdb == TdProb(f1, style_ctx, "b")
           sel == SelectPhase(style_ctx, rng, was_ground, Max(tda, tdb))
       IN /\ td_prob' = [ a |-> tda, b |-> tdb ]
          /\ rng' = sel.rng
          /\ phase' = sel.phase
          /\ was_ground' = sel.was_ground
          /\ f' = IF sel.phase = "ground" THEN TakedownMomentum(f1, tda, tdb) ELSE f1
    /\ nticks' = nticks + 1
    /\ pc' = "phase"
    /\ UNCHANGED << inputs, locals, tick, result >>

\* lines 355-363: the ground tick of a fight that stayed on the ground
GroundStay ==
    /\ pc = "phase"
    /\ phase = "ground_stay"
    /\ LET r == SimulateGroundTick(f, result, rng)
       IN /\ f' = r.f
          /\ rng' = r.rng
          /\ IF r.res.winner_id # None
             THEN /\ result' = [r.res EXCEPT
                                   !.time = TimeStr(Elapsed(tick))]
                  /\ pc' = "returned"
             ELSE /\ result' = r.res
                  /\ pc' = "drain"
    /\ UNCHANGED << inputs, locals, tick, was_ground, td_prob, phase, nticks >>

\* line 375
GroundTakedown ==
    /\ pc = "phase"
    /\ phase = "ground"
    /\ LET r == SimulateGroundTick(f, result, rng)
       IN /\ f' = r.f
          /\ rng' = r.rng
          /\ result' = r.res
    /\ pc' = "check"
    /\ UNCHANGED << inputs, locals, tick, was_ground, td_prob, phase, nticks >>

\* line 377
Clinch ==
    /\ pc = "phase"
    /\ phase = "clinch"
    /\ LET r == SimulateClinchTick(f, result, rng, round_num)
       IN /\ f' = r.f
          /\ rng' = r.rng
          /\ result' = r.res
    /\ pc' = "check"
    /\ UNCHANGED << inputs, locals, tick, was_ground, td_prob, phase, nticks >>

\* variant: the second striker always acts
AfterFirstStrikeAlways(res) == "second"

\* lines 443-445: after the first strike the tick is over when a winner is
\* set, otherwise the second fighter strikes
AfterFirstStrike(res) == IF res.winner_id # None THEN "check" ELSE "second"

\* lines 379 and 433-444: the first strike of _simulate_striking_tick
StrikeFirst ==
    /\ pc = "phase"
    /\ phase = "striking"
    /\ LET first_k == FirstStriker(f)
           r == ProcessStrike(f, result, rng, first_k, Other(first_k), TRUE)
       IN /\ f' = r.f
          /\ rng' = r.rng
          /\ result' = r.res
          /\ pc' = AfterFirstStrike(r.res)
    /\ UNCHANGED << inputs, locals, tick, was_ground, td_prob, phase, nticks >>

\* line 445: the second strike
StrikeSecond ==
    /\ pc = "second"
    /\ LET first_k == FirstStriker(f)
           r == ProcessStrike(f, result, rng, Other(first_k), first_k, FALSE)
       IN /\ f' = r.f
          /\ rng' = r.rng
          /\ result' = r.res
    /\ pc' = "check"
    /\ UNCHANGED << inputs, locals, tick, was_ground, td_prob, phase, nticks >>

\* variant: fighter b's strike finish is checked before fighter a's
CumulativeFinishBFirst(fs) ==
    IF IsFinishedByStrikes(fs["b"], fs["a"].momentum) THEN << "a", "KO/TKO" >>
    ELSE IF IsFinishedByStrikes(fs["a"], fs["b"].momentum) THEN << "b", "KO/TKO" >>
    ELSE IF IsFinishedByGrappling(fs["a"], fs["b"].momentum) THEN << "b", "Submission" >>
    ELSE IF IsFinishedByGrappling(fs["b"], fs["a"].momentum) THEN << "a", "Submission" >>
    ELSE << >>

\* lines 391-417: the cumulative finish of the tick as <<winner key, method>>,
\* << >> when nobody is finished
CumulativeFinish(fs) ==
    IF IsFinishedByStrikes(fs["a"], fs["b"].momentum) THEN << "b", "KO/TKO" >>
    ELSE IF IsFinishedByStrikes(fs["b"], fs["a"].momentum) THEN << "a", "KO/TKO" >>
    ELSE IF IsFinishedByGrappling(fs["a"], fs["b"].momentum) THEN << "b", "Submission" >>
    ELSE IF IsFinishedByGrappling(fs["b"], fs["a"].momentum) THEN << "a", "Submission" >>
    ELSE << >>

\* variant: an in-tick stoppage returns without its time
FinishCheckNoTime ==
    /\ pc = "check"
    /\ LET time_str == TimeStr(Elapsed(tick))
           fin == CumulativeFinish(f)
       IN IF result.winner_id # None
          THEN /\ result' = result
               /\ pc' = "returned"
          ELSE IF fin # << >>
          THEN /\ result' = [result EXCEPT !.winner_id = f[fin[1]].id,
                                           !.method = fin[2], !.time = time_str]
               /\ pc' = "returned"
          ELSE /\ result' = result
               /\ pc' = "drain"
    /\ UNCHANGED << inputs, locals, f, rng, tick, was_ground, td_prob, phase, nticks >>

\* lines 381-417: the finish checks after the phase resolver
FinishCheck ==
    /\ pc = "check"
    /\ LET time_str == TimeStr(Elapsed(tick))
           fin == CumulativeFinish(f)
       IN IF result.winner_id # None
          THEN /\ result' = [result EXCEPT !.time = time_str]
               /\ pc' = "returned"
          ELSE IF fin # << >>
          THEN /\ result' = [result EXCEPT !.winner_id = f[fin[1]].id,
                                           !.method = fin[2], !.time = time_str]
               /\ pc' = "returned"
          ELSE /\ result' = result
               /\ pc' = "drain"
    /\ UNCHANGED << inputs, locals, f, rng, tick, was_ground, td_prob, phase, nticks >>

\* lines 361-363 and 419-422: the drains that end a tick, and the loop test
Drain ==
    /\ pc = "drain"
    /\ LET g1 == Nxt(rng)
           g2 == Nxt(g1)
       IN /\ f' = [ a |-> DrainStamina(f["a"], g1), b |-> DrainStamina(f["b"], g2) ]
          /\ rng' = g2
    /\ tick' = tick + 1
    /\ pc' = IF tick + 1 < TICKS_PER_ROUND THEN "tick" ELSE "returned"
    /\ UNCHANGED << inputs, locals, was_ground, td_prob, phase, result, nticks >>

\* ------------------------------------------------------------------------
\* simulate_fight, after _simulate_round has returned (fight_engine.py 273-308)
\* ------------------------------------------------------------------------
\* variant: a round's count replaces the tally instead of adding to it
AccumulateLast(total_kd, round_kd) ==
    [ k \in (DOMAIN total_kd) \cup (DOMAIN round_kd) |->
        IF k \in DOMAIN round_kd THEN round_kd[k] ELSE total_kd[k] ]

\* lines 276-277: total_knockdowns after adding the round's knockdowns
Accumulate(total_kd, round_kd) ==
    [ k \in (DOMAIN total_kd) \cup (DOMAIN round_kd) |->
        Get(total_kd, k) + Get(round_kd, k) ]

\* lines 273-294: the round's result is recorded; a finish goes on to the
\* FightResult, otherwise both fighters recover and the loop goes on
RoundReturn ==
    /\ pc = "returned"
    /\ round_results' = Append(round_results, result)
    /\ total_knockdowns' = Accumulate(total_knockdowns, result.knockdowns)
    /\ IF result.winner_id # None
       THEN /\ verdict' = [ winner |-> IF result.winner_id = f["a"].id THEN "a" ELSE "b",
                            method |-> result.method,
                            round_ended |-> round_num,
                            time_ended |-> result.time ]
            /\ pc' = "narrate"
            /\ UNCHANGED << f, round_num >>
       ELSE /\ f' = [k \in {"a", "b"} |-> ApplyRoundFatigue(f[k], round_num)]
            /\ round_num' = round_num + 1
            /\ pc' = IF round_num + 1 <= max_rounds THEN "round" ELSE "judges"
            /\ UNCHANGED verdict
    /\ UNCHANGED << inputs, rng, style_ctx, tick, was_ground, td_prob, phase, result, out,
                    global_draws, nticks >>

\* lines 296-298: the judges' decision after the last round
Judges ==
    /\ pc = "judges"
    /\ LET d == JudgesDecision(f, total_knockdowns, rng)
       IN /\ verdict' = [ winner |-> d.winner, method |-> d.method,
                          round_ended |-> max_rounds, time_ended |-> << 5, 0, 0 >>,
                          a_score |-> d.a_score, b_score |-> d.b_score ]
          /\ rng' = d.rng
    /\ pc' = "narrate"
    /\ UNCHANGED << inputs, f, style_ctx, round_num, tick, was_ground, td_prob, phase,
                    result, round_results, total_knockdowns, out, global_draws, nticks >>

\* lines 154-163
FightResult(winner_id, loser_id, method, round_ended, time_ended, narrative, total_kd) ==
    [ winner_id |-> winner_id, loser_id |-> loser_id, method |-> method,
      round_ended |-> round_ended, time_ended |-> time_ended, narrative |-> narrative,
      is_draw |-> FALSE, total_knockdowns |-> total_kd ]

\* variant: the loser is always the second fighter
LoserAlwaysB(fs, winner) == "b"

\* lines 281 and 298: loser = b if winner.id == a.id else a
Loser(fs, winner) == IF fs[winner].id = fs["a"].id THEN "b" ELSE "a"

\* lines 282-291 and 299-308: the narrative is built, its template picked by
\* the module-level random.choice, and the FightResult is returned
Return ==
    /\ pc = "narrate"
    /\ \E choice \in 0 .. TemplateCount(verdict.method) - 1 :
          out' = FightResult(f[verdict.winner].id, f[Loser(f, verdict.winner)].id,
                             verdict.method, verdict.round_ended, verdict.time_ended,
                             BuildNarrative(f, round_results, verdict.method,
                                            verdict.winner, style_ctx, total_knockdowns,
                                            choice),
                             total_knockdowns)
    /\ global_draws' = global_draws + 1
    /\ pc' = "done"
    /\ UNCHANGED << inputs, f, rng, style_ctx, round_num, tick, was_ground, td_prob, phase,
                    result, round_results, total_knockdowns, verdict, nticks >>

\* The caller calls simulate_fight again with the same two snapshots, the same
\* round count and the same seed.
CallAgain ==
    /\ pc = "done"
    /\ call = 1
    /\ call' = 2
    /\ first' = out
    /\ pc' = "call"
    /\ UNCHANGED << f, seed, max_rounds, rng, style_ctx, round_num, tick, was_ground,
                    td_prob, phase, result, round_results, total_knockdowns, verdict, out,
                    global_draws, nticks, q >>

Next ==
    \/ Call
    \/ RoundStart
    \/ TickStart
    \/ GroundStay
    \/ GroundTakedown
    \/ Clinch
    \/ StrikeFirst
    \/ StrikeSecond
    \/ FinishCheck
    \/ Drain
    \/ RoundReturn
    \/ Judges
    \/ Return
    \/ CallAgain

Spec == Init /\ [][Next]_vars

\* ------------------------------------------------------------------------
\* Bouts as above, and bouts picked up where the last round has been played
\* without a finish and few strikes have landed: the scores the judges give
\* are close enough to be equal for some states of the generator
\* ------------------------------------------------------------------------
\* generator states 0 .. MaxJudgeState before the judges' draws
MaxJudgeState == 2047
\* the generic damage of a fighter at the decision; every landed strike adds
\* its damage to standing_damage and half of it to damage
JudgeDamages == {0, 1000, 2000, 3000}

\* the snapshot x after the last round with generic damage d from strikes
AtDecision(x, d) ==
    [ResetRuntime(x) EXCEPT !.damage = d, !.standing_damage = 2 * d,
                            !.current_round = MAX_ROUNDS_STANDARD]

InitJudge ==
    /\ \E da \in JudgeDamages, db \in JudgeDamages :
          f = [ a |-> AtDecision(Matchups[1][1], da), b |-> AtDecision(Matchups[1][2], db) ]
    /\ seed = 0
    /\ max_rounds = MAX_ROUNDS_STANDARD
    /\ pc = "judges"
    /\ rng \in 0 .. MaxJudgeState
    /\ style_ctx = ComputeStyleContext(f["a"], f["b"])
    /\ round_num = MAX_ROUNDS_STANDARD + 1
    /\ tick = TICKS_PER_ROUND
    /\ was_ground = FALSE
    /\ td_prob = [ a |-> 0, b |-> 0 ]
    /\ phase = "striking"
    /\ result = RoundResult(MAX_ROUNDS_STANDARD)
    /\ round_results = [ r \in 1 .. MAX_ROUNDS_STANDARD |-> RoundResult(r) ]
    /\ total_knockdowns = Put(Put(EmptyDict, f["a"].id, 0), f["b"].id, 0)
    /\ verdict = NoVerdict
    /\ out = NoResult
    /\ call = 1
    /\ first = NoResult
    /\ global_draws = 0
    /\ nticks = MAX_ROUNDS_STANDARD * TICKS_PER_ROUND
    /\ q = NoQuery

SpecJudge == (Init \/ InitJudge) /\ [][Next]_vars


\* ------------------------------------------------------------------------
\* is_finished_by_strikes on its own: queries over every chin, every set of
\* the traits it reads, and momenta and damages around its boundaries
\* ------------------------------------------------------------------------
MAX_ATTRIBUTE == 100
QueryTraits == SUBSET {"iron_chin", "comeback_king", "journeyman_heart"}
QueryMomenta == {-1000, -510, -500, 0, 500, 510, 1000}
QueryDamages == {0, 54999, 55000, 67999, 68000, 85119, 85120, 200000}

\* the snapshot a query is about
QuerySnapshot(qq) ==
    [FighterStats(1, 50, 50, 50, 50, qq.chin, 50, qq.traits, "Striker")
        EXCEPT !.standing_damage = qq.standing_damage]

InitStrike ==
    /\ f = [ a |-> Matchups[1][1], b |-> Matchups[1][2] ]
    /\ seed = 0
    /\ max_rounds = MAX_ROUNDS_STANDARD
    /\ pc = "idle"
    /\ rng = 0
    /\ style_ctx = ComputeStyleContext(f["a"], f["b"])
    /\ round_num = 0
    /\ tick = 0
    /\ was_ground = FALSE
    /\ td_prob = [ a |-> 0, b |-> 0 ]
    /\ phase = ""
    /\ result = RoundResult(0)
    /\ round_results = << >>
    /\ total_knockdowns = EmptyDict
    /\ verdict = NoVerdict
    /\ out = NoResult
    /\ call = 1
    /\ first = NoResult
    /\ global_draws = 0
    /\ nticks = 0
    /\ \E c \in 1 .. MAX_ATTRIBUTE, t \in QueryTraits, m \in QueryMomenta, d \in QueryDamages :
          q = [ asked |-> FALSE, chin |-> c, traits |-> t, opponent_momentum |-> m,
                standing_damage |-> d, threshold |-> 0, finished |-> FALSE ]

\* x.is_finished_by_strikes(opponent_momentum): its local threshold and the
\* value it returns
EvalStrike ==
    /\ pc = "idle"
    /\ ~q.asked
    /\ q' = [q EXCEPT !.asked = TRUE,
                      !.threshold = StrikeThreshold(q.chin, q.traits, q.opponent_momentum),
                      !.finished = IsFinishedByStrikes(QuerySnapshot(q), q.opponent_momentum)]
    /\ UNCHANGED << f, seed, max_rounds, pc, rng, style_ctx, round_num, tick, was_ground,
                    td_prob, phase, result, round_results, total_knockdowns, verdict, out,
                    call, first, global_draws, nticks >>

NextStrike == EvalStrike

SpecStrike == InitStrike /\ [][NextStrike]_vars

\* ------------------------------------------------------------------------
\* The hit probability on its own: queries over every striking attribute,
\* defender speeds, staminas, hurt states, rounds and every set of the traits
\* that effective_striking and _hit_probability read
\* ------------------------------------------------------------------------
HitTraits == SUBSET {"fast_hands", "slow_starter", "veteran_iq"}
HitSpeeds == {1, 50, MAX_ATTRIBUTE}
HitStaminas == {0, 50000, 100000}
HitRounds == 1 .. MAX_ROUNDS_STANDARD

\* the attacker and the defender a query is about
HitAttacker(qq) ==
    [FighterStats(1, qq.striking, 50, 50, 50, 50, 50, qq.traits, "Striker")
        EXCEPT !.stamina = qq.stamina, !.is_hurt = qq.is_hurt,
               !.current_round = qq.current_round]
HitDefender(qq) == FighterStats(2, 50, 50, 50, 50, 50, qq.speed, NoTraits, "Striker")

InitHit ==
    /\ f = [ a |-> Matchups[1][1], b |-> Matchups[1][2] ]
    /\ seed = 0
    /\ max_rounds = MAX_ROUNDS_STANDARD
    /\ pc = "idle"
    /\ rng = 0
    /\ style_ctx = ComputeStyleContext(f["a"], f["b"])
    /\ round_num = 0
    /\ tick = 0
    /\ was_ground = FALSE
    /\ td_prob = [ a |-> 0, b |-> 0 ]
    /\ phase = ""
    /\ result = RoundResult(0)
    /\ round_results = << >>
    /\ total_knockdowns = EmptyDict
    /\ verdict = NoVerdict
    /\ out = NoResult
    /\ call = 1
    /\ first = NoResult
    /\ global_draws = 0
    /\ nticks = 0
    /\ \E s \in 1 .. MAX_ATTRIBUTE, v \in HitSpeeds, st \in HitStaminas, h \in BOOLEAN,
          t \in HitTraits, r \in HitRounds, i \in BOOLEAN :
          q = [ asked |-> FALSE, striking |-> s, speed |-> v, stamina |-> st,
                is_hurt |-> h, traits |-> t, current_round |-> r, is_initiator |-> i,
                hit_prob |-> 0 ]

\* lines 453-456 of _process_strike: the hit probability the roll is compared
\* against
EvalHit ==
    /\ pc = "idle"
    /\ ~q.asked
    /\ q' = [q EXCEPT !.asked = TRUE,
                      !.hit_prob = StrikeHitProbability(HitAttacker(q), HitDefender(q),
                                                        q.is_initiator)]
    /\ UNCHANGED << f, seed, max_rounds, pc, rng, style_ctx, round_num, tick, was_ground,
                    td_prob, phase, result, round_results, total_knockdowns, verdict, out,
                    call, first, global_draws, nticks >>

NextHit == EvalHit

SpecHit == InitHit /\ [][NextHit]_vars

\* ------------------------------------------------------------------------
\* simulate_fight called the way api/services.py, monthly_sim.py and
\* test_weight_cutting.py call it: with the keyword arguments cut_severity_a
\* and cut_severity_b
\* ------------------------------------------------------------------------
\* the values get_cut_severity returns
CutSeverities == {"easy", "moderate", "severe", "extreme"}
\* lines 235-240: the parameters of simulate_fight
SimulateFightParams == {"a", "b", "max_rounds", "seed"}

InitCut ==
    /\ \E m \in 1 .. Len(Matchups) : f = [ a |-> Matchups[m][1], b |-> Matchups[m][2] ]
    /\ seed = 0
    /\ max_rounds = MAX_ROUNDS_STANDARD
    /\ pc = "idle"
    /\ rng = 0
    /\ style_ctx = ComputeStyleContext(f["a"], f["b"])
    /\ round_num = 0
    /\ tick = 0
    /\ was_ground = FALSE
    /\ td_prob = [ a |-> 0, b |-> 0 ]
    /\ phase = ""
    /\ result = RoundResult(0)
    /\ round_results = << >>
    /\ total_knockdowns = EmptyDict
    /\ verdict = NoVerdict
    /\ out = NoResult
    /\ call = 1
    /\ first = NoResult
    /\ global_draws = 0
    /\ nticks = 0
    /\ \E sa \in CutSeverities, sb \in CutSeverities :
          q = [ asked |-> FALSE, entry |-> f,
                kwargs |-> [ cut_severity_a |-> sa, cut_severity_b |-> sb ],
                raised |-> "" ]

\* simulate_fight(a, b, seed=seed, cut_severity_a=.., cut_severity_b=..): the
\* keyword arguments are bound to the parameters of lines 235-240; a keyword
\* that names no parameter raises TypeError before the body runs, otherwise
\* the body starts with the reset of lines 244-255
CallWithCut ==
    /\ pc = "idle"
    /\ ~q.asked
    /\ IF DOMAIN q.kwargs \subseteq SimulateFightParams
       THEN /\ q' = [q EXCEPT !.asked = TRUE]
            /\ f' = [k \in {"a", "b"} |-> ResetRuntime(f[k])]
       ELSE /\ q' = [q EXCEPT !.asked = TRUE, !.raised = "TypeError"]
            /\ f' = f
    /\ UNCHANGED << seed, max_rounds, pc, rng, style_ctx, round_num, tick, was_ground,
                    td_prob, phase, result, round_results, total_knockdowns, verdict, out,
                    call, first, global_draws, nticks >>

NextCut == CallWithCut

SpecCut == InitCut /\ [][NextCut]_vars

\* ------------------------------------------------------------------------
\* The submission attempt on its own: queries over the generator's state, the
\* attacker's momentum and grappling, and what the escape probability reads
\* of the defender
\* ------------------------------------------------------------------------
\* generator states 0 .. MaxSubState before the attempt
MaxSubState == 149
SubMomenta == {-1000, -500, 0, 500, 1000}
SubGrapplings == {1, 50, 85, MAX_ATTRIBUTE}
SubStyles == {"Grappler", "Well-Rounded"}

\* the attacker (key a) and the defender (key b) a query is about
SubFighters(qq) ==
    [ a |-> [FighterStats(1, 50, qq.att_grappling, 60, 50, 50, 50, NoTraits, "Grappler")
                EXCEPT !.momentum = qq.momentum],
      b |-> [FighterStats(2, 50, qq.def_grappling, 50, 50, 50, 50,
                          IF qq.magnet THEN {"submission_magnet"} ELSE NoTraits,
                          qq.style)
                EXCEPT !.is_hurt = qq.is_hurt,
                       !.hurt_ticks_remaining = IF qq.is_hurt THEN 1 ELSE 0] ]

InitSub ==
    /\ f = [ a |-> Matchups[1][1], b |-> Matchups[1][2] ]
    /\ seed = 0
    /\ max_rounds = MAX_ROUNDS_STANDARD
    /\ pc = "idle"
    /\ rng = 0
    /\ style_ctx = ComputeStyleContext(f["a"], f["b"])
    /\ round_num = 0
    /\ tick = 0
    /\ was_ground = FALSE
    /\ td_prob = [ a |-> 0, b |-> 0 ]
    /\ phase = ""
    /\ result = RoundResult(0)
    /\ round_results = << >>
    /\ total_knockdowns = EmptyDict
    /\ verdict = NoVerdict
    /\ out = NoResult
    /\ call = 1
    /\ first = NoResult
    /\ global_draws = 0
    /\ nticks = 0
    /\ \E g \in 0 .. MaxSubState, m \in SubMomenta, ag \in {50, 85},
          dg \in SubGrapplings, mg \in BOOLEAN, h \in BOOLEAN, st \in SubStyles :
          q = [ asked |-> FALSE, g |-> g, momentum |-> m, att_grappling |-> ag,
                def_grappling |-> dg, magnet |-> mg, is_hurt |-> h, style |-> st,
                after |-> [ f |-> << >>, rng |-> g ] ]

\* lines 592-626 of _simulate_ground_tick with a on top
EvalSub ==
    /\ pc = "idle"
    /\ ~q.asked
    /\ q' = [q EXCEPT !.asked = TRUE,
                      !.after = SubmissionAttempt(SubFighters(q), q.g, "a", "b")]
    /\ UNCHANGED << f, seed, max_rounds, pc, rng, style_ctx, round_num, tick, was_ground,
                    td_prob, phase, result, round_results, total_knockdowns, verdict, out,
                    call, first, global_draws, nticks >>

NextSub == EvalSub

SpecSub == InitSub /\ [][NextSub]_vars

\* ------------------------------------------------------------------------
\* Properties
\* ------------------------------------------------------------------------
Keys == {"a", "b"}
Decisions == {"Unanimous Decision", "Split Decision", "Majority Decision"}

\* C1: two calls of simulate_fight with the same seed and the same two
\* snapshots return the same FightResult in every field, the narrative
\* included.
C1_SameOutcome == (pc = "done" /\ call = 2) => out = first

\* C2: the winner_id and loser_id of every FightResult are the ids of the two
\* fighters, one each, and differ; for finishes and decisions alike.
C2_WinnerLoser ==
    pc = "done" =>
        /\ {out.winner_id, out.loser_id} = {f["a"].id, f["b"].id}
        /\ out.winner_id # out.loser_id

\* a bout ended by a knockdown stoppage that fighter b won
C2_Witness ==
    /\ pc = "done"
    /\ out.method = "KO/TKO"
    /\ out.winner_id = f["b"].id
    /\ Get(out.total_knockdowns, f["a"].id) >= 1

\* C3: when no round produced a finish, the FightResult carries one of the
\* three decision methods, round_ended = max_rounds and a winner.
NoFinish == \A i \in DOMAIN round_results : round_results[i].winner_id = None

C3_Decision ==
    (pc = "done" /\ NoFinish) =>
        /\ out.method \in Decisions
        /\ out.round_ended = max_rounds
        /\ out.winner_id \in {f["a"].id, f["b"].id}

C3_Witness ==
    /\ pc = "done"
    /\ NoFinish
    /\ max_rounds = 3
    /\ out.round_ended = 3
    /\ out.method = "Split Decision"

\* C4: every call reaches its FightResult after at most max_rounds x 10
\* ticks: a step is possible in every state before the last FightResult, and
\* every step moves forward in the bounded order of (call, round, tick,
\* position), so that no tick and no round is run twice.
PcRank ==
    CASE pc = "call" -> 0 [] pc = "round" -> 1 [] pc = "tick" -> 2 [] pc = "phase" -> 3
      [] pc = "second" -> 4 [] pc = "check" -> 5 [] pc = "drain" -> 6
      [] pc = "returned" -> 7 [] pc = "judges" -> 8 [] pc = "narrate" -> 9
      [] OTHER -> 10

Measure ==
    LET r == CASE pc = "call" -> 0
               [] pc = "narrate" -> MAX_ROUNDS_CHAMPIONSHIP + 2
               [] pc = "done" -> MAX_ROUNDS_CHAMPIONSHIP + 3
               [] OTHER -> round_num
        t == IF pc \in {"tick", "phase", "second", "check", "drain", "returned"}
             THEN tick ELSE 0
    IN ((call * 10 + r) * 100 + t) * 100 + PcRank

\* the measure of the state in which the repeated call has returned
MeasureDone == ((2 * 10 + MAX_ROUNDS_CHAMPIONSHIP + 3) * 100) * 100 + 10

\* the guards of the actions of Next: some step is possible
CanStep ==
    \/ pc \in {"call", "round", "tick", "second", "check", "drain", "returned", "judges"}
    \/ pc = "phase" /\ phase \in {"ground_stay", "ground", "clinch", "striking"}
    \/ pc = "narrate" /\ TemplateCount(verdict.method) >= 1
    \/ pc = "done" /\ call = 1

C4_Terminates ==
    /\ [](nticks <= max_rounds * 10)
    /\ [](Measure <= MeasureDone)
    /\ [](Measure < MeasureDone => CanStep)
    /\ [][Measure' > Measure]_vars

\* a five-round bout that ran all of its 50 ticks
C4_Witness == pc = "done" /\ max_rounds = 5 /\ nticks = 50

\* C5: whenever a tick's phase has been resolved and the bout goes on to the
\* stamina drain of that tick, no fighter meets a finish predicate: a fighter
\* at or past a threshold at the end of a tick ends the bout on that tick.
C5_FinishOnTick == pc = "drain" => CumulativeFinish(f) = << >>

\* C6: is_finished_by_strikes answers standing_damage >= threshold for the
\* threshold of the stated chain; it is 68 for chin 50 without traits and
\* 85.12 with iron_chin alone, opponent momentum within [-0.5, 0.5].
\* The stated chain, in hundred-thousandths.
C6_Stated(chin, traits, m) ==
    LET base == 6800000 + (chin - 50) * 80000
        iron == IF "iron_chin" \in traits THEN ((base + 800000) * 112) \div 100 ELSE base
        king == IF "comeback_king" \in traits THEN iron + 500000 ELSE iron
        heart == IF "journeyman_heart" \in traits
                 THEN ((IF king < 5500000 THEN 5500000 ELSE king) * 120) \div 100
                 ELSE king
    IN CASE m > 500 -> (heart * 90) \div 100
         [] m < -500 -> (heart * 110) \div 100
         [] OTHER -> heart

C6_Threshold ==
    q.asked =>
        /\ q.threshold = C6_Stated(q.chin, q.traits, q.opponent_momentum)
        /\ q.finished <=> (q.standing_damage * 100 >= q.threshold)
        /\ (q.chin = 50 /\ q.traits = {} /\ Abs(q.opponent_momentum) <= 500)
              => (q.threshold = 6800000 /\ (q.finished <=> q.standing_damage >= 68000))
        /\ (q.chin = 50 /\ q.traits = {"iron_chin"} /\ Abs(q.opponent_momentum) <= 500)
              => (q.threshold = 8512000 /\ (q.finished <=> q.standing_damage >= 85120))

\* exactly 68 damage finishes the chin-50 fighter without traits
C6_Witness ==
    /\ q.asked
    /\ q.chin = 50
    /\ q.traits = {}
    /\ q.opponent_momentum = 0
    /\ q.standing_damage = 68000
    /\ q.finished

\* C7: for the traits and opponent momentum of the query, no lower chin has a
\* higher threshold than the chin asked about, and the damage that finishes
\* the fighter asked about finishes the same fighter with any lower chin.
C7_ChinMonotone ==
    q.asked =>
        \A c \in 1 .. q.chin :
            /\ StrikeThreshold(c, q.traits, q.opponent_momentum) <= q.threshold
            /\ q.finished =>
                  IsFinishedByStrikes([QuerySnapshot(q) EXCEPT !.chin = c],
                                      q.opponent_momentum)

C7_Witness ==
    /\ q.asked
    /\ q.chin = MAX_ATTRIBUTE
    /\ q.traits = {"journeyman_heart"}
    /\ q.finished

\* C8: the stamina of both fighters is within [0, 100] in every state.
C8_Stamina == \A k \in Keys : f[k].stamina >= 0 /\ f[k].stamina <= 100000

\* a fighter drained to 0 by the last drain of the fifth round
C8_Witness ==
    /\ \E k \in Keys : f[k].stamina = 0 /\ f[k].current_round = 5
    /\ pc = "returned"

\* C9: the momentum of both fighters is within [-1, 1] in every state.
C9_Momentum == \A k \in Keys : f[k].momentum >= -1000 /\ f[k].momentum <= 1000

\* a fighter whose momentum was clamped at 1 by a landed strike
C9_Witness == \E k \in Keys : f[k].momentum = 1000 /\ pc = "check"

\* C10: standing_damage and ground_damage of a fighter go down in no step
\* but the reset at the entry of simulate_fight.
C10_DamageMonotone ==
    [][(\E k \in Keys : \/ f'[k].standing_damage < f[k].standing_damage
                        \/ f'[k].ground_damage < f[k].ground_damage)
          => pc = "call"]_vars

\* a later round starts with the damage of the rounds before
C10_Witness ==
    /\ pc = "tick"
    /\ round_num = 2
    /\ tick = 0
    /\ \E k \in Keys : f[k].standing_damage > 0 /\ f[k].ground_damage > 0

\* C11: every value a roll is compared against as a probability is within
\* [0, 1]: each fighter's takedown probability with the style delta and the
\* Well-Rounded bonus and the larger of the two, the wrestler's takedown
\* probability from the clinch, the hit probability of either fighter, the
\* knockdown probability of the strike about to land and the escape
\* probability of either fighter.
IsProbability(p) == p >= 0 /\ p <= 1000000

C11_Probabilities ==
    /\ pc = "phase" =>
          /\ IsProbability(td_prob["a"])
          /\ IsProbability(td_prob["b"])
          /\ IsProbability(Max(td_prob["a"], td_prob["b"]))
    /\ (pc = "phase" /\ phase = "clinch" /\ ClinchWrestler(f) # "") =>
          IsProbability(ClinchTakedownProbability(f, ClinchWrestler(f)))
    /\ (pc = "phase" /\ phase = "striking") =>
          LET att == FirstStriker(f)
              dmg == LandedDamage(f, Nxt(Nxt(rng)), att, Other(att))
          IN /\ IsProbability(StrikeHitProbability(f[att], f[Other(att)], TRUE))
             /\ dmg > 12000 => IsProbability(KnockdownProbability(dmg, f[Other(att)]))
    /\ pc = "second" =>
          IsProbability(StrikeHitProbability(f[Other(FirstStriker(f))],
                                             f[FirstStriker(f)], FALSE))
    /\ (pc = "phase" /\ phase \in {"ground", "ground_stay"}) =>
          \A k \in Keys : IsProbability(EscapeProbability(f[k]))

\* C12: the hit probability a strike's roll is compared against is within
\* [0.15, 0.85] for every attacker and defender, with fast_hands and with the
\* initiator's first-strike bonus.
C12_HitProbability == q.asked => (q.hit_prob >= 150000 /\ q.hit_prob <= 850000)

\* an initiator with fast_hands whose probability would pass 0.85 is held at it
C12_Witness ==
    /\ q.asked
    /\ q.is_initiator
    /\ "fast_hands" \in q.traits
    /\ q.striking = MAX_ATTRIBUTE
    /\ q.speed = 1
    /\ q.stamina = 100000
    /\ ~q.is_hurt
    /\ q.hit_prob = 850000

\* class FighterStyle: the styles a stored fighter can have
KnownStyles == {"Striker", "Grappler", "Wrestler", "Well-Rounded"}

\* the neutral values of a _StyleContext, the takedown deltas aside
NeutralBias(ctx) ==
    /\ ctx.clinch_prob = 200000
    /\ ctx.ground_stickiness = 1000
    /\ ctx.style_narrative = ""

\* C13 as stated: when a style is not a known style, or the ordered pair of
\* styles (a's, b's) has no table entry, both takedown deltas are 0.0, the
\* clinch probability is 0.20, the ground stickiness 1.0 and the label empty.
C13_Stated ==
    (pc # "call" /\ pc # "idle"
        /\ (\/ f["a"].style \notin KnownStyles
            \/ f["b"].style \notin KnownStyles
            \/ ~HasStyleEntry(f["a"].style, f["b"].style))) =>
        /\ style_ctx.td_mod_a = 0
        /\ style_ctx.td_mod_b = 0
        /\ NeutralBias(style_ctx)

\* C13 (amended): when a style is not a known style, or neither ordered pair
\* of styles has a table entry, the context is neutral in all five fields;
\* when one ordered pair has no entry, the delta of that pair is 0.0 and the
\* clinch probability, ground stickiness and label are neutral.  A bout with
\* an unknown style always has a next step until it has returned, and returns
\* a FightResult with a winner and a method.
C13_Neutral ==
    LET sa == f["a"].style
        sb == f["b"].style
        unknown == sa \notin KnownStyles \/ sb \notin KnownStyles
    IN (pc # "call" /\ pc # "idle") =>
        /\ (unknown \/ (~HasStyleEntry(sa, sb) /\ ~HasStyleEntry(sb, sa))) =>
              /\ style_ctx.td_mod_a = 0
              /\ style_ctx.td_mod_b = 0
              /\ NeutralBias(style_ctx)
        /\ ~HasStyleEntry(sa, sb) => (style_ctx.td_mod_a = 0 /\ NeutralBias(style_ctx))
        /\ ~HasStyleEntry(sb, sa) => (style_ctx.td_mod_b = 0 /\ NeutralBias(style_ctx))
        /\ unknown => (Measure < MeasureDone => CanStep)
        /\ (unknown /\ pc = "done") =>
              /\ out.winner_id \in {f["a"].id, f["b"].id}
              /\ out.method \in Decisions \cup {"KO/TKO", "Submission"}

\* a bout of a fighter with an unknown style against a Wrestler has returned
C13_Witness ==
    /\ pc = "done"
    /\ f["a"].style \notin KnownStyles
    /\ f["b"].style = "Wrestler"
    /\ style_ctx.td_mod_a = 0
    /\ style_ctx.td_mod_b = 0
    /\ out.winner_id # None

\* C14: every random draw of simulate_fight and its helpers is read from the
\* per-call generator: the module-level generator, which all bouts of the
\* process share, is never drawn from.
C14_PerCallGenerator == global_draws = 0

\* C15: at the start of the first round every runtime field of both
\* snapshots is as in a newly constructed snapshot, whatever the snapshots
\* carried on entry; and the repeated call, entered with the runtime state the
\* first call left behind, returns the same winner, method, round, time and
\* knockdown tally as the first call.
Outcome(r) == << r.winner_id, r.method, r.round_ended, r.time_ended, r.total_knockdowns >>

C15_RuntimeReset ==
    /\ (pc = "round" /\ round_num = 1) =>
          \E m \in 1 .. Len(Matchups) : f = [ a |-> Matchups[m][1], b |-> Matchups[m][2] ]
    /\ (pc = "done" /\ call = 2) => Outcome(out) = Outcome(first)

\* the first call ended in a knockdown stoppage, leaving the loser hurt and
\* knocked down, and the repeated call has returned
C15_Witness ==
    /\ pc = "done"
    /\ call = 2
    /\ first.method = "KO/TKO"
    /\ Get(first.total_knockdowns, first.loser_id) >= 1
    /\ out.method = "KO/TKO"

\* C16: when the judges decide, each fighter's score is the opponent's damage
\* + 0.5 x the opponent's standing damage + 10 per knockdown the opponent
\* suffered + a noise within [-5, 5]; the fighter with the higher score wins;
\* the method is Unanimous Decision when the margin is >= 3 and Split or
\* Majority Decision when it is below 3.
Absorbed(x) == x.damage + x.standing_damage \div 2 + 10000 * x.knockdowns_suffered

C16_Judging ==
    (pc \in {"narrate", "done"} /\ verdict.method \in Decisions) =>
        LET noise_a == verdict.a_score - Absorbed(f["b"])
            noise_b == verdict.b_score - Absorbed(f["a"])
            margin == Abs(verdict.a_score - verdict.b_score)
        IN /\ noise_a >= -5000 /\ noise_a <= 5000
           /\ noise_b >= -5000 /\ noise_b <= 5000
           /\ verdict.a_score > verdict.b_score => verdict.winner = "a"
           /\ verdict.b_score > verdict.a_score => verdict.winner = "b"
           /\ margin >= 3000 => verdict.method = "Unanimous Decision"
           /\ margin < 3000 => verdict.method \in {"Split Decision", "Majority Decision"}
           /\ pc = "done" =>
                 /\ out.winner_id = f[verdict.winner].id
                 /\ out.method = verdict.method

\* a decision in a bout in which the loser was knocked down
C16_Witness ==
    /\ pc = "done"
    /\ out.method \in Decisions
    /\ \E k \in Keys : f[k].knockdowns_suffered >= 1 /\ out.loser_id = f[k].id

\* C17: simulate_fight accepts a weight-cut severity for each fighter and the
\* fighter starts the bout with the penalty of the severity applied to stamina
\* and chin: easy 0 / 0, moderate -3 / -2, severe -7 / -5, extreme -12 / -8.
C17_StaminaPenalty(sev) ==
    CASE sev = "easy" -> 0 [] sev = "moderate" -> -3000
      [] sev = "severe" -> -7000 [] sev = "extreme" -> -12000

C17_ChinPenalty(sev) ==
    CASE sev = "easy" -> 0 [] sev = "moderate" -> -2
      [] sev = "severe" -> -5 [] sev = "extreme" -> -8

C17_CutPenalties ==
    (q.asked /\ "kwargs" \in DOMAIN q) =>
        /\ q.raised = ""
        /\ f["a"].stamina = 100000 + C17_StaminaPenalty(q.kwargs.cut_severity_a)
        /\ f["b"].stamina = 100000 + C17_StaminaPenalty(q.kwargs.cut_severity_b)
        /\ f["a"].chin = q.entry["a"].chin + C17_ChinPenalty(q.kwargs.cut_severity_a)
        /\ f["b"].chin = q.entry["b"].chin + C17_ChinPenalty(q.kwargs.cut_severity_b)

\* the generator state after n draws from state s
RECURSIVE NxtN(_, _)
NxtN(s, n) == IF n = 0 THEN s ELSE NxtN(Nxt(s), n - 1)

PhaseNames == {"ground_stay", "ground", "clinch", "striking"}

\* C18 as stated: the phase of a tick is selected with one random draw.
C18_SingleDraw == [][pc = "tick" => rng' = NxtN(rng, 1)]_vars

\* C18 (amended): the phase of a tick is selected with two draws, the clinch
\* roll and the takedown roll, when the last tick was not on the ground; when
\* it was, a stand-up roll is drawn between them: two draws if the fight
\* stays on the ground, three if it stands up.
C18_PhaseDraws ==
    [][pc = "tick" =>
          /\ phase' \in PhaseNames
          /\ ~was_ground => (rng' = NxtN(rng, 2) /\ phase' # "ground_stay")
          /\ (was_ground /\ phase' = "ground_stay") => rng' = NxtN(rng, 2)
          /\ (was_ground /\ phase' # "ground_stay") => rng' = NxtN(rng, 3)]_vars

\* a tick that began on the ground and stayed there
C18_Witness == pc = "phase" /\ phase = "ground_stay" /\ was_ground

\* the digits of m:ss for a number of seconds
C19_Clock(seconds) == << seconds \div 60, (seconds % 60) \div 10, (seconds % 60) % 10 >>

\* C19 as stated: the time recorded for a finish is tick x 30 seconds, tick
\* being the index of the finishing tick in the tick loop.
C19_Stated ==
    (pc = "returned" /\ result.winner_id # None) => result.time = C19_Clock(tick * 30)

\* C19 (amended): the time recorded for a finish is (tick + 1) x 30 seconds,
\* the end of the finishing tick, as m:ss: 0:30 for a finish on the first
\* tick, 5:00 on the last; for knockdown stoppages and cumulative finishes
\* alike, and it is the time_ended of the FightResult.
C19_FinishTime ==
    /\ (pc = "returned" /\ result.winner_id # None) =>
          /\ tick \in 0 .. TICKS_PER_ROUND - 1
          /\ result.time = C19_Clock((tick + 1) * 30)
    /\ (pc = "done" /\ out.method \in {"KO/TKO", "Submission"}) =>
          /\ out.time_ended = result.time
          /\ out.time_ended = C19_Clock((tick + 1) * 30)

\* a knockdown stoppage on the first tick of a round, recorded at 0:30
C19_Witness ==
    /\ pc = "returned"
    /\ result.winner_id # None
    /\ DOMAIN result.knockdowns # {}
    /\ tick = 0
    /\ result.time = << 0, 3, 0 >>

\* C20: a fighter's second knockdown of a round ends the bout on that strike
\* by KO/TKO for the attacker: wherever the bout goes on (the start of a
\* round or a tick, a phase to resolve, the second strike, the drain, the
\* judges) no fighter has a per-round count of 2; a fighter with a count of 2
\* has lost the round's result, and the FightResult, by KO/TKO; and every
\* round starts with both counts at 0, whatever was suffered in the rounds
\* before.
C20_SecondKnockdown ==
    /\ pc \in {"round", "tick", "phase", "second", "drain", "judges"} =>
          \A k \in Keys : f[k].round_knockdowns <= 1
    /\ \A k \in Keys :
          (f[k].round_knockdowns >= 2 /\ pc \in {"check", "returned", "narrate", "done"}) =>
              /\ f[k].round_knockdowns = 2
              /\ result.winner_id = f[Other(k)].id
              /\ result.method = "KO/TKO"
              /\ pc = "done" => (out.winner_id = f[Other(k)].id /\ out.method = "KO/TKO"
                                 /\ out.round_ended = f[k].current_round)
    /\ (pc = "tick" /\ tick = 0) => \A k \in Keys : f[k].round_knockdowns = 0

\* a bout stopped by the second knockdown of a round
C20_Witness ==
    /\ pc = "done"
    /\ \E k \in Keys : /\ f[k].round_knockdowns = 2
                        /\ out.winner_id = f[Other(k)].id
                        /\ out.method = "KO/TKO"

\* C21: is_hurt is true exactly when hurt_ticks_remaining > 0, in every
\* state; a knockdown sets the countdown to 2; the start of every tick takes
\* one off a positive countdown; the start of a round and of a bout set it to
\* 0; nothing else changes it.
C21_Hurt ==
    /\ [](\A k \in Keys : /\ f[k].is_hurt <=> f[k].hurt_ticks_remaining > 0
                           /\ f[k].hurt_ticks_remaining \in 0 .. 2)
    /\ [][\A k \in Keys :
            LET before == f[k].hurt_ticks_remaining
                after == f'[k].hurt_ticks_remaining
                down == f'[k].knockdowns_suffered > f[k].knockdowns_suffered
            IN CASE pc = "tick" -> after = (IF before > 0 THEN before - 1 ELSE 0)
                 [] pc \in {"call", "round"} -> after = 0
                 [] pc \in {"phase", "second"} -> after = (IF down THEN 2 ELSE before)
                 [] OTHER -> after = before]_vars

\* the tick after a knockdown: the fighter is hurt with one tick to go
C21_Witness ==
    /\ pc = "phase"
    /\ \E k \in Keys : /\ f[k].is_hurt
                        /\ f[k].hurt_ticks_remaining = 1
                        /\ f[k].round_knockdowns = 1

\* C22: once a winner is set in a tick nothing more happens to the fighters:
\* wherever a strike, a drain, a tick, or the judges are about to run no
\* winner is set; from the moment the round's result has a winner up to the
\* FightResult the snapshots and the generator are not touched (no second
\* strike, no drain, no recovery, no judges' draw), no tick and no round is
\* started, and the FightResult is that of the round of the finish.
C22_ShortCircuit ==
    /\ [](pc \in {"tick", "phase", "second", "drain", "judges"} => result.winner_id = None)
    /\ [][(result.winner_id # None /\ pc \in {"check", "returned", "narrate"}) =>
            /\ f' = f
            /\ rng' = rng
            /\ nticks' = nticks
            /\ round_num' = round_num
            /\ tick' = tick
            /\ pc' \in {"returned", "narrate", "done"}]_vars
    /\ [][(pc = "phase" /\ result'.winner_id # None) => pc' = "check"]_vars
    /\ []((pc = "done" /\ result.winner_id # None) =>
            /\ out.winner_id = result.winner_id
            /\ out.round_ended = round_num
            /\ Len(round_results) = round_num
            /\ "a_score" \notin DOMAIN verdict)

\* the first striker's knockdown has stopped the bout; the second striker
\* has not acted
C22_Witness ==
    /\ pc = "check"
    /\ phase = "striking"
    /\ result.winner_id = f[FirstStriker(f)].id
    /\ f[FirstStriker(f)].standing_damage = 0

\* the fighter x with the veteran_iq trait taken away
WithoutVeteranIq(x) == [x EXCEPT !.traits = x.traits \ {"veteran_iq"}]

\* the stamina of f[k] after the drain of the step that leaves pc = "drain",
\* had the fighter x been in its place
DrainedStamina(k, x) ==
    DrainStamina(x, IF k = "a" THEN Nxt(rng) ELSE Nxt(Nxt(rng))).stamina

\* C23 as stated: in rounds 1, 2 and 3 a fighter with veteran_iq drains
\* exactly as the same fighter without the trait, on the same base draw.
C23_Stated ==
    [][pc = "drain" =>
        \A k \in Keys :
            f[k].current_round <= 3 =>
                f'[k].stamina = DrainedStamina(k, WithoutVeteranIq(f[k]))]_vars

\* C23 amended: in rounds 1 and 2 a fighter with veteran_iq drains exactly as
\* the same fighter without the trait; from round 3 on its drain is 0.90
\* times the drain without the trait (floored at 0 stamina), and a fighter
\* without the trait is never discounted.
C23_VeteranDrain ==
    [][pc = "drain" =>
        \A k \in Keys :
            LET plain == WithoutVeteranIq(f[k])
                base == Uniform(1500, 3500, IF k = "a" THEN Nxt(rng) ELSE Nxt(Nxt(rng)))
                d0 == (base * (150 - f[k].cardio)) \div 150
                d1 == IF "gas_tank" \in f[k].traits THEN (d0 * 55) \div 100 ELSE d0
            IN IF "veteran_iq" \in f[k].traits /\ f[k].current_round >= 3
               THEN f'[k].stamina = Max(0, f[k].stamina - (d1 * 90) \div 100)
               ELSE f'[k].stamina = DrainedStamina(k, plain)]_vars

\* a veteran_iq fighter with stamina left has just been drained in round 3
C23_Witness ==
    /\ round_num = 3
    /\ tick > 0
    /\ pc \in {"tick", "returned"}
    /\ result.winner_id = None
    /\ \E k \in Keys : /\ "veteran_iq" \in f[k].traits
                       /\ f[k].current_round = 3
                       /\ f[k].stamina > 0

\* a submission was attempted in the query: the sub_rate roll succeeded, so
\* the escape roll was drawn too
SubAttempted == q.asked /\ q.after.rng # Nxt(q.g)
\* the escape roll r and the escape probability p of the query, millionths
SubRoll == Roll(Nxt(Nxt(q.g))) * 1000
SubEscape == EscapeProbability(SubFighters(q)["b"])
\* the uniform(25, 40) draw that follows the escape roll, thousandths
SubDraw == Uniform(25000, 40000, Nxt(Nxt(Nxt(q.g))))
\* what the attempt added to the defender's ground damage
SubAdded == q.after.f["b"].ground_damage - SubFighters(q)["b"].ground_damage

\* C24 as stated: one roll r against the escape probability p decides among
\* a full escape (r < p/2, nothing added), a partial escape (p/2 <= r < p,
\* half of the uniform(25,40) draw added, 12.5 to 20) and no escape (r >= p,
\* the full draw added, 25 to 40).
C24_Stated ==
    SubAttempted =>
        /\ SubRoll < SubEscape \div 2 => SubAdded = 0
        /\ (SubEscape \div 2 <= SubRoll /\ SubRoll < SubEscape) =>
                SubAdded = SubDraw \div 2 /\ SubAdded \in 12500 .. 20000
        /\ SubRoll >= SubEscape =>
                SubAdded = SubDraw /\ SubAdded \in 25000 .. 40000

\* C24 amended: the three outcomes are decided by the one roll as stated, a
\* full escape adds nothing and draws no damage, and the partial and full
\* amounts are half of, or all of, the uniform(25,40) draw multiplied by the
\* attacker's momentum multiplier (1 + 0.2 * momentum) and by 1.20 when the
\* defender has submission_magnet.
C24_Submission ==
    SubAttempted =>
        LET mm == 1000 + q.momentum \div 5
            smm == IF q.magnet THEN 120 ELSE 100
            Scaled(d) == (((d * mm) \div 1000) * smm) \div 100
        IN /\ SubRoll < SubEscape \div 2 =>
                /\ SubAdded = 0
                /\ q.after.rng = Nxt(Nxt(q.g))
           /\ (SubEscape \div 2 <= SubRoll /\ SubRoll < SubEscape) =>
                /\ SubAdded = Scaled(SubDraw \div 2)
                /\ SubAdded \in Scaled(12500) .. Scaled(20000)
                /\ q.after.rng = Nxt(Nxt(Nxt(q.g)))
           /\ SubRoll >= SubEscape =>
                /\ SubAdded = Scaled(SubDraw)
                /\ SubAdded \in Scaled(25000) .. Scaled(40000)
                /\ q.after.rng = Nxt(Nxt(Nxt(q.g)))

\* a partial escape of a submission_magnet from an attacker with positive
\* momentum, which adds more than 20 to the ground damage
C24_Witness ==
    /\ SubAttempted
    /\ SubEscape \div 2 <= SubRoll
    /\ SubRoll < SubEscape
    /\ q.magnet
    /\ q.momentum > 0
    /\ SubAdded > 20000

\* the digits <<m, s, s>> of the times m:ss that are a multiple of 30 seconds
\* from 0:30 to 5:00
RoundTimes ==
    { t \in (0 .. 5) \X (0 .. 5) \X (0 .. 9) :
        LET seconds == t[1] * 60 + t[2] * 10 + t[3]
        IN seconds % 30 = 0 /\ seconds >= 30 /\ seconds <= 300 }

\* C25: every RoundResult that _simulate_round returns has winner_id, method
\* and time all None or all set; when set, the method is KO/TKO or Submission,
\* the winner is one of the two fighters and the time is a multiple of 30
\* seconds between 0:30 and 5:00.
C25_RoundResult ==
    pc = "returned" =>
        \/ /\ result.winner_id = None
           /\ result.method = NoMethod
           /\ result.time = NoTime
        \/ /\ result.winner_id \in { f["a"].id, f["b"].id }
           /\ result.method \in {"KO/TKO", "Submission"}
           /\ result.time \in RoundTimes

\* a round returned with a knockdown stoppage in it
C25_Witness ==
    /\ pc = "returned"
    /\ result.winner_id # None
    /\ result.method = "KO/TKO"
    /\ \E k \in Keys : f[k].round_knockdowns >= 2

\* the four cumulative predicates of the state, as the finish checks read them
StrikesFinished(k) == IsFinishedByStrikes(f[k], f[Other(k)].momentum)
GrapplingFinished(k) == IsFinishedByGrappling(f[k], f[Other(k)].momentum)

\* C26: at the finish checks of a tick an in-tick stoppage stands whatever the
\* cumulative predicates say; otherwise the first that holds of a finished by
\* strikes, b finished by strikes, a finished by grappling, b finished by
\* grappling decides, so fighter b wins when both are past their strike
\* threshold and a strike finish goes before a grapple finish.
C26_FinishOrder ==
    [][pc = "check" =>
        IF result.winner_id # None
        THEN /\ result'.winner_id = result.winner_id
             /\ result'.method = result.method
             /\ pc' = "returned"
        ELSE IF StrikesFinished("a")
        THEN result'.winner_id = f["b"].id /\ result'.method = "KO/TKO"
        ELSE IF StrikesFinished("b")
        THEN result'.winner_id = f["a"].id /\ result'.method = "KO/TKO"
        ELSE IF GrapplingFinished("a")
        THEN result'.winner_id = f["b"].id /\ result'.method = "Submission"
        ELSE IF GrapplingFinished("b")
        THEN result'.winner_id = f["a"].id /\ result'.method = "Submission"
        ELSE result' = result /\ pc' = "drain"]_vars

\* the round returned to fighter b with both fighters past their strike
\* threshold
C26_Witness ==
    /\ pc = "returned"
    /\ result.winner_id = f["b"].id
    /\ result.method = "KO/TKO"
    /\ f["a"].round_knockdowns = 0
    /\ StrikesFinished("a")
    /\ StrikesFinished("b")

\* Grappler vs Grappler
BothGrapplers == f["a"].style = "Grappler" /\ f["b"].style = "Grappler"

\* the stand-up roll a tick draws when the last tick was on the ground: the
\* second draw of the tick, thousandths
StandupRoll == Roll(Nxt(Nxt(rng)))

\* the clinch tick that starts in this state ends in the wrestler's takedown
ClinchTookDown ==
    LET sa == ClinchStrike(f, rng, "a", "b", round_num)
        sb == ClinchStrike(sa.f, sa.rng, "b", "a", round_num)
        w == ClinchWrestler(f)
    IN /\ w # ""
       /\ Roll(Nxt(sb.rng)) * 1000 < 400000
       /\ Roll(Nxt(Nxt(sb.rng))) * 1000 < ClinchTakedownProbability(sb.f, w)

\* C27: the fight stays on the ground exactly when the last tick was on the
\* ground and the stand-up roll exceeds the stickiness, which is 1.0 for
\* every style pair but Grappler vs Grappler (0.80); so for every other pair
\* the stay-on-ground branch is never taken, a ground tick selected by the
\* round loop follows a successful takedown roll in the same tick, and ground
\* damage is only added in such a tick or after a successful clinch takedown.
C27_StayOnGround ==
    /\ [](style_ctx.ground_stickiness = IF BothGrapplers THEN 800 ELSE 1000)
    /\ []((pc = "phase" /\ phase = "ground_stay") => BothGrapplers)
    /\ [][pc = "tick" =>
            /\ phase' = "ground_stay" <=>
                    (was_ground /\ StandupRoll > style_ctx.ground_stickiness)
            /\ phase' = "ground" =>
                    Roll(IF was_ground THEN Nxt(Nxt(Nxt(rng))) ELSE Nxt(Nxt(rng))) * 1000
                        < Max(td_prob'["a"], td_prob'["b"])]_vars
    /\ [][(~BothGrapplers /\ \E k \in Keys : f'[k].ground_damage > f[k].ground_damage) =>
            /\ pc = "phase"
            /\ \/ phase = "ground"
               \/ phase = "clinch" /\ ClinchTookDown]_vars

\* a tick that starts on the ground between two fighters who are not both
\* Grapplers and draws a stand-up roll above 0.80
C27_Witness ==
    /\ pc = "tick"
    /\ was_ground
    /\ ~BothGrapplers
    /\ StandupRoll > 800

\* ground damages to swap in for the ones of the state, thousandths
OtherGroundDamages == {0, 30000, 200000}

\* the snapshots of the state with the ground damages ga and gb
WithGroundDamage(ga, gb) ==
    [f EXCEPT !["a"].ground_damage = ga, !["b"].ground_damage = gb]

\* C28: the judges' decision is the same whatever the two ground damages are,
\* everything else and the draws being equal, and no ground action adds to
\* the generic damage: a ground tick leaves it alone, and a clinch tick adds
\* only what its clinch strikes add, takedown or not.
C28_GroundIgnored ==
    /\ [][pc = "judges" =>
            \A ga \in OtherGroundDamages, gb \in OtherGroundDamages :
                LET d == JudgesDecision(WithGroundDamage(ga, gb), total_knockdowns, rng)
                IN /\ verdict'.winner = d.winner
                   /\ verdict'.method = d.method
                   /\ verdict'.a_score = d.a_score
                   /\ verdict'.b_score = d.b_score]_vars
    /\ [][(pc = "phase" /\ phase \in {"ground", "ground_stay"}) =>
            \A k \in Keys : f'[k].damage = f[k].damage]_vars
    /\ [][(pc = "phase" /\ phase = "clinch") =>
            LET sa == ClinchStrike(f, rng, "a", "b", round_num)
                sb == ClinchStrike(sa.f, sa.rng, "b", "a", round_num)
            IN \A k \in Keys : f'[k].damage = sb.f[k].damage]_vars

\* a decision won by the fighter who absorbed more ground damage than the
\* loser absorbed of everything the judges count
C28_Witness ==
    /\ pc = "narrate"
    /\ verdict.method \in Decisions
    /\ f[verdict.winner].ground_damage > Absorbed(f[Other(verdict.winner)]) + 10000

\* C29: no FightResult is a draw, and when the two scores after the noise are
\* equal the decision goes to fighter b, the second argument.
C29_NoDraw ==
    /\ [](pc = "done" => out.is_draw = FALSE /\ out.winner_id \in {f["a"].id, f["b"].id})
    /\ [][pc = "judges" =>
            LET a_score == Absorbed(f["b"]) + Uniform(-5000, 5000, Nxt(rng))
                b_score == Absorbed(f["a"]) + Uniform(-5000, 5000, Nxt(Nxt(rng)))
            IN a_score = b_score => verdict'.winner = "b"]_vars
    /\ []((pc = "done" /\ "a_score" \in DOMAIN verdict /\ verdict.a_score = verdict.b_score) =>
            /\ out.winner_id = f["b"].id
            /\ out.loser_id = f["a"].id
            /\ out.method \in {"Split Decision", "Majority Decision"})

\* a FightResult of a bout the judges scored level
C29_Witness ==
    /\ pc = "done"
    /\ "a_score" \in DOMAIN verdict
    /\ verdict.a_score = verdict.b_score
    /\ out.winner_id = f["b"].id
    /\ ~out.is_draw

\* the knockdowns of the fighter id in the first n of the rounds played
RECURSIVE RoundKnockdowns(_, _)
RoundKnockdowns(id, n) ==
    IF n = 0 THEN 0
    ELSE RoundKnockdowns(id, n - 1)
         + (IF id \in DOMAIN round_results[n].knockdowns
            THEN round_results[n].knockdowns[id] ELSE 0)

\* C30: at the end of every bout total_knockdowns of the FightResult has an
\* entry for both ids, and the entry of a fighter is its knockdowns_suffered
\* and the sum of its knockdowns over the rounds played.
C30_KnockdownTally ==
    (pc = "done" /\ f["a"].id # f["b"].id) =>
        \A k \in Keys :
              /\ f[k].id \in DOMAIN out.total_knockdowns
              /\ out.total_knockdowns[f[k].id] = f[k].knockdowns_suffered
              /\ out.total_knockdowns[f[k].id]
                    = RoundKnockdowns(f[k].id, Len(round_results))

\* a bout ended with a fighter knocked down in two different rounds and the
\* other fighter never
C30_Witness ==
    /\ pc = "done"
    /\ \E k \in Keys :
          /\ \E i \in DOMAIN round_results, j \in DOMAIN round_results :
                /\ i < j
                /\ f[k].id \in DOMAIN round_results[i].knockdowns
                /\ f[k].id \in DOMAIN round_results[j].knockdowns
          /\ out.total_knockdowns[f[k].id] >= 2
          /\ out.total_knockdowns[f[Other(k)].id] = 0

====
